---------------------------- MODULE Spec2Model ----------------------------
(***************************************************************************)
(* A model of the StratSim simulation core (src/game): the Economy,        *)
(* Population and Government sub-models of a Country, the DiplomacySystem  *)
(* with its relation graph, and the WorldMap tick that sequences them.     *)
(*                                                                         *)
(* Numbers.  The program computes with Python floats; the model computes   *)
(* with integers in fixed units, rounding every product or quotient down:  *)
(*   - quantities on the 0..100 scale (stability, corruption, happiness,   *)
(*     health, education, the satisfactions, approval, economic health)    *)
(*     are held in hundredths of a point: 70 is 7000;                      *)
(*   - rates and fractions (tax_rate, unemployment, inflation, growth      *)
(*     rates and modifiers, birth and death rate) are held in units of     *)
(*     1/10000: 0.15 is 1500;                                              *)
(*   - the five spending shares and other_spending are exact rationals:    *)
(*     numerators over the common denominator share_den, kept in lowest    *)
(*     terms, so that the rescale of allocate_budget is exact;             *)
(*   - gdp and population.total are whole units;                           *)
(*   - relation_value is in whole points; years_in_power is in months.     *)
(* A random draw uniform(a, b) is a choice between its two end points.     *)
(***************************************************************************)
EXTENDS Integers, Sequences, FiniteSets, TLC

VARIABLES
    economy,         \* country -> its Economy object
    population,      \* country -> its Population object
    government,      \* country -> its Government object
    country,         \* country -> the Country's own fields
    relations,       \* unordered pair of countries -> DiplomaticRelation
    recent_actions,  \* DiplomacySystem.recent_actions
    phase,           \* the position of WorldMap.update: "idle" between ticks
    last,            \* the last call made on the core, its inputs and its result
    ticks,           \* completed WorldMap.update calls
    steps            \* calls made on the core from outside a tick

vars == <<economy, population, government, country, relations,
          recent_actions, phase, last, ticks, steps>>

----------------------------------------------------------------------------
(* Arithmetic helpers *)

Min(a, b) == IF a < b THEN a ELSE b

Max(a, b) == IF a > b THEN a ELSE b

\* max(lo, min(hi, x)), the clamp idiom of the source
Clamp(lo, hi, x) == Max(lo, Min(hi, x))

\* floor(a * b / c) for c > 0, without forming a * b
MulDiv(a, b, c) == (a \div c) * b + ((a % c) * b) \div c

Abs(a) == IF a < 0 THEN -a ELSE a

RECURSIVE GCD(_, _)
GCD(a, b) == IF b = 0 THEN Abs(a) ELSE GCD(b, a % b)

LCM(a, b) == (a \div GCD(a, b)) * b

\* Op(v) with v evaluated once: the way an intermediate result of the source
\* (a local variable, an object between two statements) is named
With(v, Op(_)) == CHOOSE r \in {Op(x) : x \in {v}} : TRUE

----------------------------------------------------------------------------
(* src/game/constants.py *)

\* units of 1/10000
BASE_TAX_RATE == 1500

MIN_TAX_RATE == 500

MAX_TAX_RATE == 5000

BASE_GDP_GROWTH == 200

BASE_POPULATION_GROWTH == 100

MAX_POPULATION_GROWTH == 300

\* hundredths of a point
BASE_HAPPINESS == 5000

GovTypeNames == {"democracy", "monarchy", "dictatorship", "republic"}

\* election_frequency in years; corruption_resistance in percent;
\* stability_bonus in hundredths of a point; growth_modifier in 1/10000
GOVERNMENT_TYPES ==
    [democracy    |-> [election_frequency |-> 4, corruption_resistance |-> 80,
                       stability_bonus |-> 10, growth_modifier |-> 10000],
     monarchy     |-> [election_frequency |-> 0, corruption_resistance |-> 50,
                       stability_bonus |-> 20, growth_modifier |-> 9000],
     dictatorship |-> [election_frequency |-> 0, corruption_resistance |-> 30,
                       stability_bonus |-> -10, growth_modifier |-> 11000],
     republic     |-> [election_frequency |-> 6, corruption_resistance |-> 70,
                       stability_bonus |-> 5, growth_modifier |-> 10500]]

----------------------------------------------------------------------------
(* src/game/models/economy.py *)

\* the five budget categories, in the order allocate_budget treats them
Categories == <<"healthcare_spending", "education_spending", "military_spending",
                "infrastructure_spending", "welfare_spending">>

CategorySet == {Categories[i] : i \in 1..Len(Categories)}

\* an argument left out of a call (Python's None); a passed one is <<n, d>>
None == <<>>

\* Economy.__init__
NewEconomy(initial_gdp, initial_population) ==
    [gdp |-> initial_gdp,
     population |-> initial_population,
     tax_rate |-> BASE_TAX_RATE,
     government_budget |-> MulDiv(initial_gdp, 2, 10),
     debt |-> 0,
     inflation |-> 200,
     unemployment |-> 500,
     trade_balance |-> 0,
     healthcare_spending |-> 15,
     education_spending |-> 20,
     military_spending |-> 10,
     infrastructure_spending |-> 20,
     welfare_spending |-> 15,
     other_spending |-> 20,
     share_den |-> 100]

\* the sum of the five shares, as a numerator over share_den
ShareTotal(e) ==
    e.healthcare_spending + e.education_spending + e.military_spending
        + e.infrastructure_spending + e.welfare_spending

\* the shares of e written over the denominator d (a multiple of share_den)
OverDen(e, d) ==
    LET k == d \div e.share_den
    IN  [e EXCEPT !.healthcare_spending = @ * k, !.education_spending = @ * k,
                  !.military_spending = @ * k, !.infrastructure_spending = @ * k,
                  !.welfare_spending = @ * k, !.other_spending = @ * k,
                  !.share_den = d]

\* the same shares in lowest terms: one value has one representation
ShareGCD(e) ==
    GCD(e.share_den,
        GCD(e.healthcare_spending,
        GCD(e.education_spending,
        GCD(e.military_spending,
        GCD(e.infrastructure_spending,
        GCD(e.welfare_spending, e.other_spending))))))

Reduce(e0) ==
    With(e0, LAMBDA e : With(ShareGCD(e), LAMBDA g :
        [e EXCEPT !.healthcare_spending = @ \div g, !.education_spending = @ \div g,
                  !.military_spending = @ \div g, !.infrastructure_spending = @ \div g,
                  !.welfare_spending = @ \div g, !.other_spending = @ \div g,
                  !.share_den = @ \div g]))

\* self.<cat> = n / d, for a rational n / d with d > 0
SetShare(e, cat, n, d) ==
    LET L == LCM(e.share_den, d)
    IN  Reduce([OverDen(e, L) EXCEPT ![cat] = n * (L \div d)])

\* self.<cat> += n / d
AddShare(e, cat, n, d) ==
    LET L == LCM(e.share_den, d)
    IN  Reduce([OverDen(e, L) EXCEPT ![cat] = @ + n * (L \div d)])

\* self.<cat> = self.<cat> - n / d, without the floor f / d
LowerShareUnfloored(e, cat, n, f, d) ==
    LET L == LCM(e.share_den, d)
        k == L \div d
    IN  Reduce([OverDen(e, L) EXCEPT ![cat] = @ - n * k])

\* self.<cat> = max(f / d, self.<cat> - n / d)
LowerShare(e, cat, n, f, d) ==
    LET L == LCM(e.share_den, d)
        k == L \div d
    IN  Reduce([OverDen(e, L) EXCEPT ![cat] = Max(f * k, @ - n * k)])

\* set_tax_rate without its clamp
set_tax_rate_unclamped(e, new_rate) == [e EXCEPT !.tax_rate = new_rate]

\* Economy.set_tax_rate
set_tax_rate(e, new_rate) ==
    [e EXCEPT !.tax_rate = Max(MIN_TAX_RATE, Min(MAX_TAX_RATE, new_rate))]

\* one "if <arg> is not None: self.<cat> = max(0, min(1, <arg>))" of allocate_budget;
\* an argument is None or a rational <<n, d>>
ClampShare(e, cat, arg) ==
    IF arg = None THEN e
    ELSE SetShare(e, cat, Max(0, Min(arg[2], arg[1])), arg[2])

\* the remainder of allocate_budget without the rescale before it
NormalizeSharesUnscaled(e) ==
    Reduce([e EXCEPT !.other_spending = Max(0, e.share_den - ShareTotal(e))])

\* the rescale and the remainder of allocate_budget (lines 91-104)
NormalizeShares(e) ==
    LET total == ShareTotal(e)
    IN  IF total > e.share_den
        THEN \* scale = 1.0 / total: each share n/den becomes n/total
             Reduce([e EXCEPT !.share_den = total, !.other_spending = 0])
        ELSE Reduce([e EXCEPT !.other_spending = Max(0, e.share_den - total)])

\* Economy.allocate_budget; args maps each category to None or <<n, d>>
allocate_budget(e, args) ==
    With(ClampShare(e, "healthcare_spending", args.healthcare_spending), LAMBDA e1 :
    With(ClampShare(e1, "education_spending", args.education_spending), LAMBDA e2 :
    With(ClampShare(e2, "military_spending", args.military_spending), LAMBDA e3 :
    With(ClampShare(e3, "infrastructure_spending", args.infrastructure_spending),
         LAMBDA e4 :
    With(ClampShare(e4, "welfare_spending", args.welfare_spending), LAMBDA e5 :
    NormalizeShares(e5))))))

\* Economy.calculate_tax_revenue
calculate_tax_revenue(e) == MulDiv(e.gdp, e.tax_rate, 10000)

\* the inflation tiers of update_gdp, in 1/10000
InflationEffect(e) ==
    IF e.inflation < 200 THEN 100
    ELSE IF e.inflation < 500 THEN 50
    ELSE -((e.inflation * 3) \div 10)

\* Economy.update_gdp; noise is the draw of random.uniform(-0.01, 0.01)
update_gdp(e, growth_modifier, stability_bonus, noise) ==
    LET unemployment_penalty == e.unemployment \div 2
        education_bonus == (e.education_spending * 1000) \div e.share_den
        infrastructure_bonus == (e.infrastructure_spending * 800) \div e.share_den
        base == BASE_GDP_GROWTH + stability_bonus + InflationEffect(e)
                  + education_bonus + infrastructure_bonus - unemployment_penalty
        total_growth == MulDiv(base, growth_modifier, 10000) + noise
        gdp1 == e.gdp + MulDiv(e.gdp, total_growth, 10000)
    IN  [e EXCEPT !.gdp = gdp1,
                  !.trade_balance = MulDiv(gdp1 \div 10, total_growth - 200, 10000)]

\* Economy.update_budget: spending is set equal to revenue, so neither branch
\* of the debt update is taken
update_budget(e) ==
    LET revenue == calculate_tax_revenue(e)
        spending == revenue
        debt1 == IF spending > revenue THEN e.debt + (spending - revenue)
                 ELSE IF revenue > spending
                      THEN e.debt - Min(e.debt, (revenue - spending) \div 2)
                      ELSE e.debt
    IN  [e EXCEPT !.debt = debt1, !.government_budget = revenue]

\* Economy.get_economic_health, in hundredths of a point
get_economic_health(e) ==
    LET base_score == IF e.population > 0
                      THEN Min(10000, e.gdp \div (e.population * 5))
                      ELSE 0
        unemployment_penalty == e.unemployment
        inflation_bonus == IF e.inflation < 200 THEN 1000
                           ELSE IF e.inflation < 500 THEN 500
                           ELSE -(e.inflation * 2)
        debt_penalty == IF e.gdp > 0 THEN Min(3000, MulDiv(e.debt, 5000, e.gdp)) ELSE 0
    IN  Max(0, Min(10000, base_score - unemployment_penalty + inflation_bonus
                            - debt_penalty))

\* Economy.trigger_economic_event
trigger_economic_event(e, event_type) ==
    CASE event_type = "recession" ->
            [e EXCEPT !.gdp = MulDiv(@, 95, 100), !.unemployment = @ + 200]
      [] event_type = "boom" ->
            [e EXCEPT !.gdp = MulDiv(@, 105, 100), !.unemployment = Max(200, @ - 100)]
      [] event_type = "market_crash" ->
            [e EXCEPT !.gdp = MulDiv(@, 90, 100), !.unemployment = @ + 300]
      [] event_type = "tech_breakthrough" ->
            [e EXCEPT !.gdp = MulDiv(@, 103, 100), !.unemployment = Max(200, @ - 50)]
      [] OTHER -> e

----------------------------------------------------------------------------
(* src/game/models/population.py *)

\* Population.__init__
NewPopulation(initial_population) ==
    [total |-> initial_population,
     happiness |-> BASE_HAPPINESS,
     health |-> 7000,
     education |-> 6000,
     growth_rate |-> BASE_POPULATION_GROWTH,
     children |-> 2500,
     adults |-> 6500,
     elderly |-> 1000,
     literacy_rate |-> 8500,
     life_expectancy |-> 7500,
     birth_rate |-> 150,
     death_rate |-> 80,
     healthcare_satisfaction |-> 5000,
     education_satisfaction |-> 5000,
     economic_satisfaction |-> 5000,
     security_satisfaction |-> 5000]

\* Population.update_population; the three spendings are <<numerator, denominator>>,
\* economic_health is in hundredths of a point and stability is
\* government.stability / 100, passed here as government.stability in hundredths
update_population(p, healthcare_spending, education_spending, welfare_spending, economic_health, stability) ==
    LET healthcare_effect == (healthcare_spending[1] * 5000) \div healthcare_spending[2]
        health1 == Min(10000, p.health + (healthcare_effect - 7000) \div 100)
        healthcare_satisfaction1 ==
            Min(10000, (healthcare_spending[1] * 10000) \div healthcare_spending[2])
        education_effect == (education_spending[1] * 5000) \div education_spending[2]
        education1 == Min(10000, p.education + (education_effect - 6000) \div 100)
        education_satisfaction1 ==
            Min(10000, (education_spending[1] * 10000) \div education_spending[2])
        economic_satisfaction1 == economic_health
        security_satisfaction1 == Min(10000, stability)
        happiness1 == (healthcare_satisfaction1 + education_satisfaction1
                         + economic_satisfaction1 + security_satisfaction1) \div 4
        base_growth == p.birth_rate - p.death_rate
        growth1 == base_growth + (health1 - 7000) \div 200
                     + ((happiness1 - 5000) * 3) \div 2000
        growth_rate1 == Max(0, Min(MAX_POPULATION_GROWTH, growth1))
    IN  [p EXCEPT !.health = health1,
                  !.healthcare_satisfaction = healthcare_satisfaction1,
                  !.education = education1,
                  !.education_satisfaction = education_satisfaction1,
                  !.economic_satisfaction = economic_satisfaction1,
                  !.security_satisfaction = security_satisfaction1,
                  !.happiness = happiness1,
                  !.growth_rate = growth_rate1,
                  !.total = @ + MulDiv(@, growth_rate1, 10000),
                  !.life_expectancy = 7000 + (health1 - 7000) \div 5,
                  !.literacy_rate = Min(10000, 5000 + education1 \div 2)]

\* Population.handle_event; d holds the draws: d.health of uniform(5, 15),
\* d.happiness of uniform(10, 20), d.education of uniform(5, 10), in hundredths of
\* a point, and d.total, the factor applied to total, in 1/1000
Population_handle_event(p, event_type, d) ==
    CASE event_type = "epidemic" ->
            [p EXCEPT !.health = @ - d.health,
                      !.happiness = @ - d.happiness,
                      !.total = MulDiv(@, d.total, 1000)]
      [] event_type = "baby_boom" ->
            [p EXCEPT !.birth_rate = @ + 50, !.children = @ + 200]
      [] event_type = "brain_drain" ->
            [p EXCEPT !.education = @ - d.education,
                      !.total = MulDiv(@, d.total, 1000)]
      [] event_type = "immigration_wave" ->
            [p EXCEPT !.total = MulDiv(@, d.total, 1000), !.adults = @ + 100]
      [] OTHER -> p

\* Population.get_approval_rating, in hundredths of a point
get_approval_rating(p) ==
    LET approval == (p.economic_satisfaction * 35 + p.healthcare_satisfaction * 25
                       + p.education_satisfaction * 20 + p.security_satisfaction * 20)
                      \div 100
    IN  Max(0, Min(10000, approval))

\* Population.trigger_protest_risk, in 1/10000
trigger_protest_risk(p) ==
    LET dissatisfaction == 10000 - p.happiness
        base_risk == dissatisfaction
        security_modifier == (10000 - p.security_satisfaction) \div 2
    IN  Min(10000, base_risk + security_modifier)

----------------------------------------------------------------------------
(* src/game/models/government.py *)

\* the roster of Government.__init__, in list order: Progressive Party,
\* Conservative Party, Centrist Alliance, Nationalist Party
Parties == 1..4

LawNames == {"freedom_of_press", "universal_healthcare", "mandatory_education",
             "death_penalty", "gun_control", "environmental_protection"}

\* the sum of the four popularities, in 1/10000
PopularityTotal(pop) == pop[1] + pop[2] + pop[3] + pop[4]

\* max(self.parties, key=lambda p: p.popularity): the first party of the list
\* that no other exceeds
MaxParty(pop) ==
    CHOOSE i \in Parties :
        /\ \A j \in Parties : pop[j] <= pop[i]
        /\ \A j \in Parties : j < i => pop[j] < pop[i]

\* Government.__init__; popularity is in 1/10000, years_in_power in months
NewGovernment(government_type) ==
    [type |-> government_type,
     stability |-> 7000,
     corruption |-> 2000,
     years_in_power |-> 0,
     next_election |-> GOVERNMENT_TYPES[government_type].election_frequency,
     popularity |-> <<2500, 2500, 3000, 2000>>,
     ruling_party |-> MaxParty(<<2500, 2500, 3000, 2000>>),
     laws |-> [freedom_of_press |-> TRUE, universal_healthcare |-> FALSE,
               mandatory_education |-> TRUE, death_penalty |-> FALSE,
               gun_control |-> TRUE, environmental_protection |-> TRUE],
     bureaucracy_efficiency |-> 6000,
     transparency |-> 5000]

\* Government.update_party_popularity
update_party_popularity(g, approval, economic_health) ==
    LET \* (ruling_performance - 50) * 0.002, in 1/10000
        performance_change == ((approval + economic_health) - 10000) \div 10
        share == Abs(performance_change) \div 4
        pop1 == [i \in Parties |->
                    IF i = g.ruling_party THEN g.popularity[i] + performance_change
                    ELSE IF performance_change < 0 THEN g.popularity[i] + share
                    ELSE g.popularity[i]]
        total_popularity == PopularityTotal(pop1)
        pop2 == IF total_popularity > 0
                THEN [i \in Parties |-> MulDiv(pop1[i], 10000, total_popularity)]
                ELSE pop1
    IN  [g EXCEPT !.popularity = pop2]

\* whether hold_election returns: its "popularity / total" raises
\* ZeroDivisionError when the noisy popularities sum to zero
ElectionTotal(g, noise) ==
    PopularityTotal([i \in Parties |-> g.popularity[i] + noise[i]])

\* Government.hold_election; noise[i] is party i's draw of
\* random.uniform(-0.05, 0.05), in 1/10000
hold_election(g, noise) ==
    IF GOVERNMENT_TYPES[g.type].election_frequency = 0 THEN g
    ELSE
    LET pop1 == [i \in Parties |-> g.popularity[i] + noise[i]]
        total == PopularityTotal(pop1)
        pop2 == [i \in Parties |->
                    Max(0, IF total > 0 THEN MulDiv(pop1[i], 10000, total)
                           ELSE -MulDiv(pop1[i], 10000, -total))]
        winner == MaxParty(pop2)
        changed == winner # g.ruling_party
    IN  [g EXCEPT !.popularity = pop2,
                  !.ruling_party = winner,
                  !.years_in_power = IF changed THEN 0 ELSE @,
                  !.stability = IF changed THEN @ - 500 ELSE @,
                  !.next_election = GOVERNMENT_TYPES[g.type].election_frequency]

\* Government.update_government; approval and economic_health are in hundredths
\* of a point, d.corruption_change is the draw of random.uniform(-0.5, 1.0) in
\* hundredths and d.noise the draws of the election it may hold
update_government(g, population_approval, economic_health, d) ==
    LET gov_data == GOVERNMENT_TYPES[g.type]
        \* (approval - 50) * 0.2 * 0.1
        stability1 == g.stability + (population_approval - 5000) \div 50
        stability2 == stability1 + gov_data.stability_bonus
        corruption_change ==
            (d.corruption_change * (100 - gov_data.corruption_resistance)) \div 100
        corruption1 == Max(0, Min(10000, g.corruption + corruption_change))
        stability3 == stability2 - corruption1 \div 10
        stability4 == Max(0, Min(10000, stability3))
    IN  With([g EXCEPT !.years_in_power = @ + 1,
                       !.corruption = corruption1,
                       !.stability = stability4], LAMBDA g1 :
        With(update_party_popularity(g1, population_approval, economic_health),
             LAMBDA g2 :
        IF g2.next_election <= 0 /\ GOVERNMENT_TYPES[g2.type].election_frequency > 0
        THEN hold_election(g2, d.noise)
        ELSE g2))

\* change_government_type without the test of the type: an unknown type has no
\* entry in GOVERNMENT_TYPES and holds no elections
change_government_type_unchecked(g, new_type, change) ==
    LET old_type == g.type
    IN  [g EXCEPT !.type = new_type,
                  !.years_in_power = 0,
                  !.next_election = IF new_type \in GovTypeNames
                                    THEN GOVERNMENT_TYPES[new_type].election_frequency
                                    ELSE 0,
                  !.stability = IF old_type # new_type
                                THEN Max(0, @ - change) ELSE @]

\* Government.change_government_type; change is the draw of
\* random.uniform(10, 30), in hundredths of a point
change_government_type(g, new_type, change) ==
    IF new_type \in GovTypeNames
    THEN LET old_type == g.type
         IN  [g EXCEPT !.type = new_type,
                       !.years_in_power = 0,
                       !.next_election = GOVERNMENT_TYPES[new_type].election_frequency,
                       !.stability = IF old_type # new_type
                                     THEN Max(0, @ - change) ELSE @]
    ELSE g

\* Government.pass_law; stability_change is the draw of random.uniform(-2, 2)
pass_law(g, law_name, value, stability_change) ==
    IF law_name \in LawNames
    THEN LET old_value == g.laws[law_name]
         IN  [g EXCEPT !.laws[law_name] = value,
                       !.stability = IF old_value # value
                                     THEN @ + stability_change ELSE @]
    ELSE g

\* Government.trigger_political_event; d holds the draws, in hundredths of a
\* point: d.corruption, d.stability, d.efficiency, d.change (of the
\* change_government_type a coup makes) and d.coup (random.random() < 0.3)
trigger_political_event(g, event_type, d) ==
    CASE event_type = "corruption_scandal" ->
            [g EXCEPT !.corruption = @ + d.corruption,
                      !.stability = @ - d.stability,
                      !.popularity[g.ruling_party] = (@ * 9) \div 10]
      [] event_type = "successful_reform" ->
            [g EXCEPT !.corruption = @ - d.corruption,
                      !.stability = @ + d.stability,
                      !.bureaucracy_efficiency = @ + d.efficiency]
      [] event_type = "coup_attempt" ->
            IF g.stability < 3000
            THEN IF d.coup
                 THEN [change_government_type(g, "dictatorship", d.change)
                          EXCEPT !.stability = 2000]
                 ELSE [g EXCEPT !.stability = @ - 1500]
            ELSE [g EXCEPT !.stability = @ - 500]
      [] event_type = "protest" ->
            [g EXCEPT !.stability = @ - d.stability]
      [] OTHER -> g

\* Government.get_growth_modifier, in 1/10000
get_growth_modifier(g) ==
    LET base_modifier == GOVERNMENT_TYPES[g.type].growth_modifier
        efficiency_bonus == (g.bureaucracy_efficiency - 5000) \div 5
        stability_bonus == (g.stability - 5000) \div 10
        corruption_penalty == g.corruption \div 10
    IN  base_modifier + efficiency_bonus + stability_bonus - corruption_penalty

----------------------------------------------------------------------------
(* src/game/models/country.py *)

\* possible_events of trigger_random_event
EventKinds == {"economic_boom", "recession", "natural_disaster", "epidemic",
               "corruption_scandal", "protest", "tech_breakthrough",
               "resource_discovery"}

\* the objects of the program: W.economy[c], W.population[c], W.government[c]
\* and W.country[c] are country c's, W.relations and W.recent_actions the
\* DiplomacySystem's
World ==
    [economy |-> economy, population |-> population, government |-> government,
     country |-> country, relations |-> relations, recent_actions |-> recent_actions]

\* Country.__init__, the fields of the Country itself; military_strength is in
\* hundredths, natural_resources in hundredths; event_cooldown maps a kind to its
\* counter, 0 for a kind that has no entry in the dict
NewCountry(traits, military_strength) ==
    [traits |-> traits,
     military_strength |-> military_strength,
     natural_resources |-> [oil |-> 50, minerals |-> 50, agriculture |-> 65,
                            technology |-> 50],
     recent_events |-> <<>>,
     event_cooldown |-> [k \in EventKinds |-> 0],
     is_player |-> FALSE]

\* Country.update, lines 62-92: economy, then population, then government, then
\* the population sync; d.gdp_noise, d.corruption_change and d.noise are the draws
UpdateModels(W, c, d) ==
    LET traits == W.country[c].traits
        g == W.government[c]
        gm0 == get_growth_modifier(g)
        gm1 == IF "industrial" \in traits THEN (gm0 * 11) \div 10 ELSE gm0
        growth_modifier == IF "technological" \in traits THEN (gm1 * 105) \div 100
                           ELSE gm1
        sb0 == (g.stability - 5000) \div 10
        stability_bonus == IF "agricultural" \in traits THEN sb0 + 50 ELSE sb0
    IN  With(update_gdp(W.economy[c], growth_modifier, stability_bonus, d.gdp_noise),
             LAMBDA e0 :
        With(update_budget(e0), LAMBDA e1 :
        With(update_population(W.population[c],
                               <<e1.healthcare_spending, e1.share_den>>,
                               <<e1.education_spending, e1.share_den>>,
                               <<e1.welfare_spending, e1.share_den>>,
                               get_economic_health(e1),
                               g.stability), LAMBDA p1 :
        With(update_government(g, get_approval_rating(p1), get_economic_health(e1), d),
             LAMBDA g1 :
        [W EXCEPT !.economy[c] = [e1 EXCEPT !.population = p1.total],
                  !.population[c] = p1, !.government[c] = g1]))))

\* the description Country.handle_event logs for a kind ("" for none)
EventDescription(W, c, event_type) ==
    CASE event_type = "economic_boom" -> "experiences an economic boom!"
      [] event_type = "recession" -> "enters a recession."
      [] event_type = "natural_disaster" -> "Natural disaster strikes"
      [] event_type = "epidemic" -> "Disease outbreak"
      [] event_type = "corruption_scandal" -> "Corruption scandal rocks"
      [] event_type = "protest" ->
            IF trigger_protest_risk(W.population[c]) > 5000
            THEN "Protests break out" ELSE ""
      [] event_type = "tech_breakthrough" -> "achieves technological breakthrough!"
      [] event_type = "resource_discovery" -> "New deposits discovered"
      [] OTHER -> ""

\* Country.handle_event; d holds the draws: d.gdp the factor of a natural
\* disaster in 1/1000, d.resource and d.amount of a discovery, and those of
\* Population.handle_event and Government.trigger_political_event
Country_handle_event(W, c, event_type, d) ==
    LET event_description == EventDescription(W, c, event_type)
        W1 ==
          CASE event_type = "economic_boom" ->
                 [W EXCEPT !.economy[c] = trigger_economic_event(@, "boom")]
            [] event_type = "recession" ->
                 [W EXCEPT !.economy[c] = trigger_economic_event(@, "recession")]
            [] event_type = "natural_disaster" ->
                 [W EXCEPT !.economy[c].gdp = MulDiv(@, d.gdp, 1000),
                           !.population[c] = Population_handle_event(@, "epidemic", d)]
            [] event_type = "epidemic" ->
                 [W EXCEPT !.population[c] = Population_handle_event(@, "epidemic", d)]
            [] event_type = "corruption_scandal" ->
                 [W EXCEPT !.government[c] =
                               trigger_political_event(@, "corruption_scandal", d)]
            [] event_type = "protest" ->
                 IF trigger_protest_risk(W.population[c]) > 5000
                 THEN [W EXCEPT !.government[c] =
                                    trigger_political_event(@, "protest", d)]
                 ELSE W
            [] event_type = "tech_breakthrough" ->
                 [W EXCEPT !.economy[c] =
                               trigger_economic_event(@, "tech_breakthrough")]
            [] event_type = "resource_discovery" ->
                 [W EXCEPT !.country[c].natural_resources[d.resource] = @ + d.amount,
                           !.economy[c].gdp = MulDiv(@, 102, 100)]
            [] OTHER -> W
    IN  IF event_description # ""
        THEN [W1 EXCEPT !.country[c].recent_events =
                            Append(@, [description |-> event_description,
                                       timestamp |-> 0])]
        ELSE W1

\* available_events of trigger_random_event
AvailableEvents(W, c) == {k \in EventKinds : W.country[c].event_cooldown[k] = 0}

\* Country.trigger_random_event with random.choice having picked event
trigger_random_event(W, c, event, d) ==
    IF AvailableEvents(W, c) = {} THEN W
    ELSE With(Country_handle_event(W, c, event, d), LAMBDA W1 :
            [W1 EXCEPT !.country[c].event_cooldown[event] = 100])

\* whether check_random_events can fire: random.random() is in [0, 1), so
\* "random.random() < base_probability * stability_factor" can be true exactly
\* when stability_factor = 1.0 + (50 - stability) / 100 is positive
EventCanFire(W, c) == 10000 + (5000 - W.government[c].stability) > 0

\* clean_old_events keeping the first ten entries rather than the last ten
clean_old_events_keeping_oldest(W, c) ==
    LET cd == W.country[c].event_cooldown
        ev == W.country[c].recent_events
    IN  [W EXCEPT !.country[c].event_cooldown =
                      [k \in EventKinds |-> IF cd[k] = 0 THEN 0
                                            ELSE IF cd[k] - 1 <= 0 THEN 0 ELSE cd[k] - 1],
                  !.country[c].recent_events =
                      IF Len(ev) > 10 THEN SubSeq(ev, 1, 10) ELSE ev]

\* Country.clean_old_events
clean_old_events(W, c) ==
    LET cd == W.country[c].event_cooldown
        ev == W.country[c].recent_events
    IN  [W EXCEPT !.country[c].event_cooldown =
                      [k \in EventKinds |-> IF cd[k] = 0 THEN 0
                                            ELSE IF cd[k] - 1 <= 0 THEN 0 ELSE cd[k] - 1],
                  !.country[c].recent_events =
                      IF Len(ev) > 10 THEN SubSeq(ev, Len(ev) - 9, Len(ev)) ELSE ev]

\* Country.update; d.fire is the outcome of the test of check_random_events,
\* d.event the kind random.choice picks
Country_update(W, c, d) ==
    With(UpdateModels(W, c, d), LAMBDA W1 :
    With(IF d.fire /\ EventCanFire(W1, c)
         THEN trigger_random_event(W1, c, d.event, d) ELSE W1, LAMBDA W2 :
    clean_old_events(W2, c)))

\* the value ai_make_decisions passes for a share: min(0.25, share * 1.1)
RaisedShare(n, den) == IF 44 * n < 10 * den THEN <<11 * n, 10 * den>> ELSE <<1, 4>>

NoArgs == [k \in CategorySet |-> None]

\* Country.ai_make_decisions; d.ai_change is the outcome of
\* random.random() < 0.01, d.new_gov the type random.choice picks and d.change
\* the draw of change_government_type
ai_make_decisions(W, c, d) ==
    IF W.country[c].is_player THEN W
    ELSE
    LET approval == get_approval_rating(W.population[c])
        economic_health == get_economic_health(W.economy[c])
        e0 == W.economy[c]
        g0 == W.government[c]
        g1 == IF approval < 3000 /\ g0.stability < 4000 /\ d.ai_change
              THEN change_government_type(g0, d.new_gov, d.change)
              ELSE g0
    IN  With(IF approval < 4000 THEN set_tax_rate(e0, (e0.tax_rate * 99) \div 100)
             ELSE IF economic_health < 4000
                  THEN set_tax_rate(e0, (e0.tax_rate * 101) \div 100)
                  ELSE e0, LAMBDA e1 :
        With(IF W.population[c].health < 6000
             THEN allocate_budget(e1, [NoArgs EXCEPT !.healthcare_spending =
                      RaisedShare(e1.healthcare_spending, e1.share_den)])
             ELSE e1, LAMBDA e2 :
        With(IF W.population[c].education < 6000
             THEN allocate_budget(e2, [NoArgs EXCEPT !.education_spending =
                      RaisedShare(e2.education_spending, e2.share_den)])
             ELSE e2, LAMBDA e3 :
        [W EXCEPT !.economy[c] = e3, !.government[c] = g1])))

\* Country.get_power_score, in hundredths
get_power_score(W, c) ==
    LET economic_power == W.economy[c].gdp \div 10000
        military_power == MulDiv(W.population[c].total, W.country[c].military_strength,
                                 1000000)
    IN  MulDiv(economic_power + military_power, W.government[c].stability, 10000)

----------------------------------------------------------------------------
(* src/game/models/diplomacy.py *)

\* DiplomaticAction
DiplomaticActions == {"improve_relations", "worsen_relations", "trade_deal",
                      "alliance", "war_declaration", "peace_treaty", "sanctions",
                      "foreign_aid"}

\* DiplomacySystem.get_relation_key: tuple(sorted([name1, name2])); a country's
\* number stands for its name
get_relation_key(a, b) == IF a <= b THEN <<a, b>> ELSE <<b, a>>

\* DiplomaticRelation.__init__ followed by initialize_relation, whose sum of
\* distance, trait and random factor is value
NewRelation(c1, c2, value) ==
    [country1 |-> c1, country2 |-> c2,
     relation_value |-> Max(-100, Min(100, value)),
     trade_deal |-> FALSE, alliance |-> FALSE, at_war |-> FALSE,
     sanctions |-> FALSE, trade_volume |-> 0]

\* the trait factor of initialize_relation
TraitFactor(t1, t2) ==
    (IF "peaceful" \in t1 /\ "peaceful" \in t2 THEN 10 ELSE 0)
      + (IF "militaristic" \in t1 /\ "militaristic" \in t2 THEN -5 ELSE 0)

\* update_relation without the clamp of line 75
update_relation_unclamped(r, change) ==
    LET value == r.relation_value + change
    IN  [r EXCEPT !.relation_value = value,
                  !.alliance = IF value < -80 /\ @ THEN FALSE ELSE @,
                  !.trade_deal = IF value < -90 /\ @ THEN FALSE ELSE @]

\* update_relation lifting the sanctions of a relation it leaves above 0
update_relation_lifting_sanctions(r, change) ==
    LET value == Max(-100, Min(100, r.relation_value + change))
    IN  [r EXCEPT !.relation_value = value,
                  !.alliance = IF value < -80 /\ @ THEN FALSE ELSE @,
                  !.trade_deal = IF value < -90 /\ @ THEN FALSE ELSE @,
                  !.sanctions = IF value > 0 THEN FALSE ELSE @]

\* update_relation with the thresholds tested on the value before the change
update_relation_tested_before(r, change) ==
    [r EXCEPT !.relation_value = Max(-100, Min(100, r.relation_value + change)),
              !.alliance = IF r.relation_value < -80 /\ @ THEN FALSE ELSE @,
              !.trade_deal = IF r.relation_value < -90 /\ @ THEN FALSE ELSE @]

\* DiplomaticRelation.update_relation
update_relation(r, change) ==
    LET value == Max(-100, Min(100, r.relation_value + change))
    IN  [r EXCEPT !.relation_value = value,
                  !.alliance = IF value < -80 /\ @ THEN FALSE ELSE @,
                  !.trade_deal = IF value < -90 /\ @ THEN FALSE ELSE @]

\* DiplomaticRelation.get_relation_type
get_relation_type(r) ==
    IF r.at_war THEN "HOSTILE"
    ELSE IF r.alliance THEN "ALLIED"
    ELSE IF r.relation_value >= 60 THEN "FRIENDLY"
    ELSE IF r.relation_value <= -60 THEN "POOR"
    ELSE "NEUTRAL"

\* the test of a trade deal without its "relation.relation_value > 20"
CanTradeDealAnyValue(relation) == ~relation.at_war

\* the test of a trade deal without its "not relation.at_war"
CanTradeDealAtWar(relation) == relation.relation_value > 20

\* the preconditions of the gated actions (lines 128, 140, 149, 165, 181, 196)
CanTradeDeal(relation) == relation.relation_value > 20 /\ ~relation.at_war

CanAlliance(relation) == relation.relation_value > 50 /\ ~relation.at_war

CanDeclareWar(relation) == ~relation.alliance

CanMakePeace(relation) == relation.at_war

\* the gate of SANCTIONS left open
CanSanctionAlways(relation) == TRUE

CanSanction(relation) == ~relation.alliance /\ relation.relation_value < 0

CanGiveAid(W, actor, target) == W.economy[actor].gdp > W.economy[target].gdp * 2

\* trade_benefit taken from the actor's GDP, not from the smaller of the two
TradeBenefitOfActor(W, actor, target) == MulDiv(W.economy[actor].gdp, 2, 100)

\* trade_benefit of a trade deal (line 131)
TradeBenefit(W, actor, target) ==
    MulDiv(Min(W.economy[actor].gdp, W.economy[target].gdp), 2, 100)

\* a war declaration that leaves the trade deal in place
DeclareWarKeepingTrade(relation) ==
    update_relation([relation EXCEPT !.at_war = TRUE, !.alliance = FALSE], -30)

\* aid_amount taken from the target's GDP, not from the actor's
AidAmountOfTarget(W, actor, target) == MulDiv(W.economy[target].gdp, 1, 100)

\* aid_amount of a foreign aid (line 197)
AidAmount(W, actor, target) == MulDiv(W.economy[actor].gdp, 1, 100)

\* the relation after a war declaration (lines 150-153)
DeclareWarOn(relation) ==
    update_relation([relation EXCEPT !.at_war = TRUE, !.alliance = FALSE,
                                     !.trade_deal = FALSE], -30)

\* the branch of perform_diplomatic_action for one action: the world after it,
\* with the success flag and the message it returns; improvement is the draw of
\* random.uniform(5, 15)
ActionOutcome(W, actor, target, action, improvement) ==
    LET key == get_relation_key(actor, target)
        relation == W.relations[key]
        Fail(msg) == [world |-> W, success |-> FALSE, message |-> msg]
        Done(W1, msg) == [world |-> W1, success |-> TRUE, message |-> msg]
    IN  CASE action = "improve_relations" ->
               Done([W EXCEPT !.relations[key] = update_relation(@, improvement)],
                    "improves relations with")
          [] action = "trade_deal" ->
               IF CanTradeDeal(relation)
               THEN LET trade_benefit == TradeBenefit(W, actor, target)
                        Wa == [W EXCEPT !.relations[key].trade_deal = TRUE,
                                        !.economy[actor].gdp = @ + trade_benefit]
                    IN  Done([Wa EXCEPT !.economy[target].gdp = @ + trade_benefit],
                             "signs trade deal with")
               ELSE Fail("Trade deal rejected - insufficient relations")
          [] action = "alliance" ->
               IF CanAlliance(relation)
               THEN Done([W EXCEPT !.relations[key] =
                              update_relation([@ EXCEPT !.alliance = TRUE], 10)],
                         "forms alliance with")
               ELSE Fail("Alliance rejected - insufficient relations")
          [] action = "war_declaration" ->
               IF CanDeclareWar(relation)
               THEN LET Wa == [W EXCEPT
                                 !.relations[key] = DeclareWarOn(@),
                                 !.economy[actor] =
                                    AddShare(@, "military_spending", 5, 100)]
                    IN  Done([Wa EXCEPT !.economy[target] =
                                           AddShare(@, "military_spending", 5, 100)],
                             "declares war on")
               ELSE Fail("Cannot declare war on ally")
          [] action = "peace_treaty" ->
               IF CanMakePeace(relation)
               THEN LET Wa == [W EXCEPT
                                 !.relations[key] =
                                    update_relation([@ EXCEPT !.at_war = FALSE], 20),
                                 !.economy[actor] =
                                    LowerShare(@, "military_spending", 5, 5, 100)]
                    IN  Done([Wa EXCEPT !.economy[target] =
                                           LowerShare(@, "military_spending", 5, 5, 100)],
                             "signs peace treaty with")
               ELSE Fail("No active war to end")
          [] action = "sanctions" ->
               IF CanSanction(relation)
               THEN Done([W EXCEPT
                            !.relations[key] =
                               update_relation([@ EXCEPT !.sanctions = TRUE,
                                                         !.trade_deal = FALSE], -10),
                            !.economy[target].gdp = MulDiv(@, 98, 100),
                            !.population[target].happiness = @ - 500],
                         "imposes sanctions on")
               ELSE Fail("Cannot impose sanctions")
          [] action = "foreign_aid" ->
               IF CanGiveAid(W, actor, target)
               THEN LET aid_amount == AidAmount(W, actor, target)
                        Wa == [W EXCEPT !.economy[actor].gdp = @ - aid_amount]
                    IN  Done([Wa EXCEPT
                                !.economy[target].gdp = @ + aid_amount,
                                !.relations[key] = update_relation(@, 15)],
                             "provides foreign aid to")
               ELSE Fail("Insufficient resources for foreign aid")
          [] OTHER -> Fail("")

\* DiplomacySystem.perform_diplomatic_action: [world, success, message]
perform_diplomatic_action(W, actor, target, action, player_initiated, improvement) ==
    IF get_relation_key(actor, target) \notin DOMAIN W.relations
    THEN [world |-> W, success |-> FALSE, message |-> "No diplomatic relation exists"]
    ELSE With(ActionOutcome(W, actor, target, action, improvement), LAMBDA out :
             IF out.success
             THEN [out EXCEPT !.world.recent_actions =
                       Append(@, [actor |-> actor, target |-> target,
                                  action |-> action, message |-> out.message,
                                  player_initiated |-> player_initiated])]
             ELSE out)

\* the ordered pairs visited were update_ai_diplomacy not to skip the player
RECURSIVE AiPairsWithPlayer(_, _, _)
AiPairsWithPlayer(W, roster, i) ==
    IF i > Len(roster) THEN <<>>
    ELSE LET c == roster[i]
             own == SelectSeq([j \in 1..Len(roster) |-> <<c, roster[j]>>],
                              LAMBDA pr : pr[2] # c)
         IN  own \o AiPairsWithPlayer(W, roster, i + 1)

\* the ordered pairs ai_diplomatic_decisions visits for one country, and
\* update_ai_diplomacy for the roster: list order, the player left out
RECURSIVE AiPairs(_, _, _)
AiPairs(W, roster, i) ==
    IF i > Len(roster) THEN <<>>
    ELSE LET c == roster[i]
             own == IF W.country[c].is_player THEN <<>>
                    ELSE SelectSeq([j \in 1..Len(roster) |-> <<c, roster[j]>>],
                                   LAMBDA pr : pr[2] # c)
         IN  own \o AiPairs(W, roster, i + 1)

\* the body of the loop of ai_diplomatic_decisions for one other country;
\* draw is 0 when one of its random gates fails, and else the improvement an
\* improve_relations would draw
AiDecision(W, c, other, draw) ==
    LET key == get_relation_key(c, other)
    IN  IF key \notin DOMAIN W.relations \/ draw = 0 THEN W
        ELSE
        LET relation == W.relations[key]
            traits == W.country[c].traits
        IN  IF relation.relation_value < -70 /\ ~relation.at_war
            THEN IF "militaristic" \in traits
                 THEN perform_diplomatic_action(W, c, other, "war_declaration",
                                                FALSE, draw).world
                 ELSE W
            ELSE IF relation.relation_value > 60 /\ ~relation.alliance
            THEN IF "peaceful" \in traits
                 THEN perform_diplomatic_action(W, c, other, "alliance",
                                                FALSE, draw).world
                 ELSE W
            ELSE IF relation.relation_value > 20 /\ ~relation.trade_deal
            THEN perform_diplomatic_action(W, c, other, "trade_deal", FALSE, draw).world
            ELSE IF relation.relation_value < 0
            THEN perform_diplomatic_action(W, c, other, "improve_relations",
                                           FALSE, draw).world
            ELSE W

RECURSIVE AiFold(_, _, _, _)
AiFold(W, pairs, draws, i) ==
    IF i > Len(pairs) THEN W
    ELSE With(AiDecision(W, pairs[i][1], pairs[i][2], draws[i]), LAMBDA W1 :
              AiFold(W1, pairs, draws, i + 1))

\* DiplomacySystem.update_ai_diplomacy; draws[i] is the draw of the i-th
\* ordered pair visited
update_ai_diplomacy(W, roster, draws) == AiFold(W, AiPairs(W, roster, 1), draws, 1)

\* the winner were it always the first country of the relation
WarWinnerFirst(relation, country1_strength, country2_strength) ==
    relation.country1

\* the winner of a war between country1 and country2 of a relation (line 282),
\* from their strengths military_strength * stability / 100
WarWinner(relation, country1_strength, country2_strength) ==
    IF country1_strength > country2_strength THEN relation.country1
    ELSE relation.country2

\* the body of the loop of resolve_wars for one relation; ends is the outcome of
\* random.random() < 0.01
ResolveWar(W, key, ends) ==
    LET relation == W.relations[key]
        c1 == relation.country1
        c2 == relation.country2
    IN  IF ~relation.at_war THEN W
        ELSE
        LET country1_strength ==
                W.country[c1].military_strength * W.government[c1].stability
            country2_strength ==
                W.country[c2].military_strength * W.government[c2].stability
            W1 == [W EXCEPT !.economy[c1].gdp = MulDiv(@, 999, 1000),
                            !.economy[c2].gdp = MulDiv(@, 999, 1000),
                            !.population[c1].happiness = @ - 10,
                            !.population[c2].happiness = @ - 10,
                            !.government[c1].stability = @ - 10,
                            !.government[c2].stability = @ - 10]
            winner == WarWinner(relation, country1_strength, country2_strength)
            loser == IF winner = c1 THEN c2 ELSE c1
        IN  IF ends
            THEN [W1 EXCEPT
                    !.relations[key].at_war = FALSE,
                    !.economy[winner] =
                        LowerShare([@ EXCEPT !.gdp = MulDiv(@, 105, 100)],
                                   "military_spending", 3, 5, 100),
                    !.economy[loser] =
                        LowerShare([@ EXCEPT !.gdp = MulDiv(@, 95, 100)],
                                   "military_spending", 3, 5, 100)]
            ELSE W1

RECURSIVE WarFold(_, _, _, _)
WarFold(W, keys, ends, i) ==
    IF i > Len(keys) THEN W
    ELSE With(ResolveWar(W, keys[i], ends[i]), LAMBDA W1 :
              WarFold(W1, keys, ends, i + 1))

\* DiplomacySystem.resolve_wars; keys lists self.relations in dict order and
\* ends[i] is the draw for the i-th relation
resolve_wars(W, keys, ends) == WarFold(W, keys, ends, 1)

----------------------------------------------------------------------------
(* Random draws.  Each uniform(a, b) is taken at an end point, and the draws  *)
(* of one call are all taken at their low end or all at their high end.      *)

Luck == {"low", "high"}

U(luck, lo, hi) == IF luck = "low" THEN lo ELSE hi

\* the draws of Country.update's sub-model updates: update_gdp (line 66 of
\* economy.py) and update_government (line 77 of government.py)
UpdateDraws(luck, noise) ==
    [gdp_noise |-> U(luck, -100, 100),
     corruption_change |-> U(luck, -50, 100),
     noise |-> noise]

\* the draws of the event handlers, with the ranges of each kind
EventDraws(event_type, luck) ==
    [gdp |-> U(luck, 950, 980),
     health |-> U(luck, 500, 1500),
     happiness |-> U(luck, 1000, 2000),
     education |-> U(luck, 500, 1000),
     total |-> CASE event_type = "brain_drain" -> U(luck, 980, 995)
                 [] event_type = "immigration_wave" -> U(luck, 1020, 1050)
                 [] OTHER -> U(luck, 950, 980),
     corruption |-> IF event_type = "successful_reform" THEN U(luck, 200, 800)
                    ELSE U(luck, 500, 1500),
     stability |-> CASE event_type = "corruption_scandal" -> U(luck, 500, 1000)
                     [] event_type = "successful_reform" -> U(luck, 300, 800)
                     [] OTHER -> U(luck, 200, 800),
     efficiency |-> U(luck, 200, 500),
     coup |-> luck = "low",
     change |-> U(luck, 1000, 3000),
     resource |-> IF luck = "low" THEN "oil" ELSE "minerals",
     amount |-> U(luck, 10, 30)]

\* the draws of an election: each party's random.uniform(-0.05, 0.05)
ElectionNoise == [Parties -> {-500, 500}]

NoNoise == [i \in Parties |-> 0]

----------------------------------------------------------------------------
(* src/game/world.py: the world WorldMap.__init__ builds *)

\* what generate_world and Country.__init__ drew for each country of the list:
\* the government type, the traits, the population, the gdp (20 to 80 per
\* head) and the military strength in hundredths
Setup ==
    <<[government_type |-> "democracy", traits |-> {"peaceful", "industrial"},
       initial_population |-> 1000000, initial_gdp |-> 50000000,
       military_strength |-> 100],
      [government_type |-> "dictatorship", traits |-> {"militaristic"},
       initial_population |-> 500000, initial_gdp |-> 10000000,
       military_strength |-> 150],
      [government_type |-> "republic", traits |-> {"peaceful", "agricultural"},
       initial_population |-> 2000000, initial_gdp |-> 160000000,
       military_strength |-> 50]>>

\* the countries of the world of the full simulation, and those of the worlds
\* the diplomacy system is followed in: the player with a militaristic
\* neighbour, and the player with a peaceful one
WorldRoster == <<1, 2>>

DiplomacyRosters == {<<1, 2>>, <<1, 3>>}

\* the keys add_countries creates for a list of countries
RelationKeySet(roster) ==
    {<<roster[i], roster[j]>> : i, j \in 1..Len(roster)} \cap
        {k \in (1..Len(Setup)) \X (1..Len(Setup)) : k[1] < k[2]}

KeyLess(k1, k2) == k1[1] < k2[1] \/ (k1[1] = k2[1] /\ k1[2] < k2[2])

\* self.relations in dict order, the order add_countries inserted the keys in
RelationKeys(W) ==
    LET ks == DOMAIN W.relations
    IN  [i \in 1..Cardinality(ks) |->
            CHOOSE k \in ks : Cardinality({k2 \in ks : KeyLess(k2, k)}) = i - 1]

\* WorldMap.countries: the countries in the order of their numbers
CountryList(W) ==
    LET cs == DOMAIN W.country
    IN  [i \in 1..Cardinality(cs) |->
            CHOOSE c \in cs : Cardinality({c2 \in cs : c2 < c}) = i - 1]

\* WorldMap.player_country
Player == CHOOSE c \in DOMAIN country : country[c].is_player

\* the values initialize_relation can give a relation: -10 for the distance,
\* the trait factor, and -20 or 10 for the random factor; 22 for two peaceful
\* countries 80 apart with the random factor at 20
InitialRelationValues(k) ==
    LET t == TraitFactor(Setup[k[1]].traits, Setup[k[2]].traits)
    IN  IF t > 0 THEN {22} ELSE {-30 + t, 10 + t}

Idle == [at |-> "idle", next |-> 0]

\* WorldMap.__init__ for a list of countries, values[k] being relation k's value
InitWorld(roster, values) ==
    LET cs == {roster[i] : i \in 1..Len(roster)}
    IN  /\ economy = [c \in cs |-> NewEconomy(Setup[c].initial_gdp,
                                              Setup[c].initial_population)]
        /\ population = [c \in cs |-> NewPopulation(Setup[c].initial_population)]
        /\ government = [c \in cs |-> NewGovernment(Setup[c].government_type)]
        /\ country = [c \in cs |->
                        [NewCountry(Setup[c].traits, Setup[c].military_strength)
                            EXCEPT !.is_player = (c = roster[1])]]
        /\ relations = [k \in RelationKeySet(roster) |->
                            NewRelation(k[1], k[2], values[k])]
        /\ recent_actions = <<>>
        /\ phase = Idle
        /\ last = [op |-> "WorldMap"]
        /\ ticks = 0
        /\ steps = 0

SetWorld(W0) ==
    \E W \in {W0} :
        /\ economy' = W.economy
        /\ population' = W.population
        /\ government' = W.government
        /\ country' = W.country
        /\ relations' = W.relations
        /\ recent_actions' = W.recent_actions

----------------------------------------------------------------------------
(* The queries; like perform_diplomatic_action each gives the world it      *)
(* leaves with what it returns                                               *)

\* the dict Country.get_full_stats returns, with those of Economy.get_stats,
\* Population.get_stats and Government.get_stats; gdp_per_capita is in whole
\* units, workforce in people and dependency_ratio in 1/10000
FullStats(W, c) ==
    LET e == W.economy[c]
        p == W.population[c]
        g == W.government[c]
    IN     [traits |-> W.country[c].traits,
            is_player |-> W.country[c].is_player,
            military_strength |-> W.country[c].military_strength,
            natural_resources |-> W.country[c].natural_resources,
            recent_events |-> W.country[c].recent_events,
            gdp |-> e.gdp,
            gdp_per_capita |-> IF e.population > 0 THEN e.gdp \div e.population ELSE 0,
            tax_rate |-> e.tax_rate,
            tax_revenue |-> calculate_tax_revenue(e),
            debt |-> e.debt,
            unemployment |-> e.unemployment,
            inflation |-> e.inflation,
            trade_balance |-> e.trade_balance,
            economic_health |-> get_economic_health(e),
            total |-> p.total,
            happiness |-> p.happiness,
            health |-> p.health,
            education |-> p.education,
            growth_rate |-> p.growth_rate,
            life_expectancy |-> p.life_expectancy,
            literacy_rate |-> p.literacy_rate,
            approval_rating |-> get_approval_rating(p),
            workforce |-> MulDiv(p.total, p.adults, 10000),
            dependency_ratio |-> IF p.adults > 0
                                 THEN MulDiv(p.children + p.elderly, 10000, p.adults)
                                 ELSE 0,
            protest_risk |-> trigger_protest_risk(p),
            healthcare_satisfaction |-> p.healthcare_satisfaction,
            education_satisfaction |-> p.education_satisfaction,
            economic_satisfaction |-> p.economic_satisfaction,
            security_satisfaction |-> p.security_satisfaction,
            type |-> g.type,
            stability |-> g.stability,
            corruption |-> g.corruption,
            years_in_power |-> g.years_in_power,
            next_election |-> g.next_election,
            ruling_party |-> g.ruling_party,
            ruling_party_popularity |-> g.popularity[g.ruling_party],
            bureaucracy_efficiency |-> g.bureaucracy_efficiency,
            transparency |-> g.transparency,
            growth_modifier |-> get_growth_modifier(g),
            parties |-> g.popularity,
            laws |-> g.laws]

\* get_full_stats bringing the budget up to date before it reads
get_full_stats_refreshing(W, c) ==
    With([W EXCEPT !.economy[c] = update_budget(@)], LAMBDA W1 :
        [world |-> W1, result |-> FullStats(W1, c)])

\* Country.get_full_stats
get_full_stats(W, c) == [world |-> W, result |-> FullStats(W, c)]

\* DiplomacySystem.get_diplomatic_summary; the three lists are in dict order
get_diplomatic_summary(W, c) ==
    LET mine == SelectSeq(RelationKeys(W), LAMBDA k : c = k[1] \/ c = k[2])
        others == [i \in 1..Len(mine) |->
                      IF mine[i][2] = c THEN mine[i][1] ELSE mine[i][2]]
        Rel(o) == W.relations[get_relation_key(c, o)]
    IN  [world |-> W,
         result |->
           [relations |-> [o \in {others[i] : i \in 1..Len(others)} |->
                              [value |-> Rel(o).relation_value,
                               type |-> get_relation_type(Rel(o)),
                               at_war |-> Rel(o).at_war,
                               alliance |-> Rel(o).alliance,
                               trade_deal |-> Rel(o).trade_deal,
                               sanctions |-> Rel(o).sanctions]],
            wars |-> SelectSeq(others, LAMBDA o : Rel(o).at_war),
            alliances |-> SelectSeq(others, LAMBDA o : Rel(o).alliance),
            trade_deals |-> SelectSeq(others, LAMBDA o : Rel(o).trade_deal)]]

\* WorldMap.get_world_stats
get_world_stats(W) ==
    LET cs == CountryList(W)
        RECURSIVE Total(_, _)
        Total(F(_), i) == IF i > Len(cs) THEN 0 ELSE F(cs[i]) + Total(F, i + 1)
        Pop(c) == W.population[c].total
        Gdp(c) == W.economy[c].gdp
        players == {c \in DOMAIN W.country : W.country[c].is_player}
    IN  [world |-> W,
         result |->
           [total_countries |-> Len(cs),
            total_population |-> Total(Pop, 1),
            total_gdp |-> Total(Gdp, 1),
            active_wars |-> Cardinality({k \in DOMAIN W.relations :
                                            W.relations[k].at_war}),
            active_alliances |-> Cardinality({k \in DOMAIN W.relations :
                                                 W.relations[k].alliance}),
            player_country |-> IF players = {} THEN None
                               ELSE <<CHOOSE c \in players : TRUE>>]]

Queries == {"get_full_stats", "get_diplomatic_summary", "get_world_stats"}

\* a call of query q, for country c where it takes one
DoQuery(q, c) ==
    \E out \in {CASE q = "get_full_stats" -> get_full_stats(World, c)
                  [] q = "get_diplomatic_summary" -> get_diplomatic_summary(World, c)
                  [] OTHER -> get_world_stats(World)} :
        /\ SetWorld(out.world)
        /\ last' = [op |-> q, country |-> c, previous |-> last.op, result |-> out.result]

----------------------------------------------------------------------------
(* The calls made on the core, each recording itself in last *)

\* Economy.set_tax_rate on country c
DoSetTaxRate(c, new_rate) ==
    /\ economy' = [economy EXCEPT ![c] = set_tax_rate(@, new_rate)]
    /\ last' = [op |-> "set_tax_rate", country |-> c, new_rate |-> new_rate]
    /\ UNCHANGED <<population, government, country, relations, recent_actions>>

\* Economy.allocate_budget on country c
DoAllocateBudget(c, args) ==
    /\ economy' = [economy EXCEPT ![c] = allocate_budget(@, args)]
    /\ last' = [op |-> "allocate_budget", country |-> c, args |-> args]
    /\ UNCHANGED <<population, government, country, relations, recent_actions>>

\* DiplomacySystem.perform_diplomatic_action
DoDiplomaticAction(actor, target, action, player_initiated, improvement) ==
    \E out \in {perform_diplomatic_action(World, actor, target, action,
                                          player_initiated, improvement)} :
        /\ SetWorld(out.world)
        /\ last' = [op |-> "perform_diplomatic_action", actor |-> actor,
                    target |-> target, action |-> action,
                    player_initiated |-> player_initiated,
                    success |-> out.success, message |-> out.message]

\* Government.change_government_type on country c
DoChangeGovernmentType(c, new_type, change) ==
    /\ government' = [government EXCEPT ![c] = change_government_type(@, new_type, change)]
    /\ last' = [op |-> "change_government_type", country |-> c, new_type |-> new_type]
    /\ UNCHANGED <<economy, population, country, relations, recent_actions>>

\* Government.pass_law on country c
DoPassLaw(c, law_name, value, stability_change) ==
    /\ government' = [government EXCEPT
                        ![c] = pass_law(@, law_name, value, stability_change)]
    /\ last' = [op |-> "pass_law", country |-> c, law_name |-> law_name,
                value |-> value]
    /\ UNCHANGED <<economy, population, country, relations, recent_actions>>

\* the draws of random.uniform(10, 30) of change_government_type
GovernmentChanges == {1000, 3000}

\* the draws of ai_make_decisions on world W: those of the government change
\* where it is considered (line 209)
AiInputs(W, c) ==
    IF get_approval_rating(W.population[c]) < 3000 /\ W.government[c].stability < 4000
    THEN {[ai_change |-> FALSE, new_gov |-> "democracy", change |-> 1000]}
         \cup {[ai_change |-> TRUE, new_gov |-> t, change |-> ch]
                 : t \in GovTypeNames, ch \in GovernmentChanges}
    ELSE {[ai_change |-> FALSE, new_gov |-> "democracy", change |-> 1000]}

\* the body of the loop were line 119 indented into it: update_ai_diplomacy
\* run after each country's update, every random gate of it passing
DoCountryUpdateThenDiplomacy(c, d) ==
    \E W1 \in {Country_update(World, c, d)} :
       \E a \in AiInputs(W1, c) :
          \E W2 \in {IF ~W1.country[c].is_player THEN ai_make_decisions(W1, c, a)
                     ELSE W1} :
             /\ SetWorld(update_ai_diplomacy(W2, CountryList(W2),
                    [i \in 1..Len(AiPairs(W2, CountryList(W2), 1)) |-> 5]))
             /\ last' = [op |-> "Country.update", country |-> c, fire |-> d.fire,
                         event |-> d.event]

\* the body of the loop of WorldMap.update for country c (lines 111-116); d
\* holds the draws of Country.update, and those of ai_make_decisions are chosen
\* on the world it leaves
DoCountryUpdate(c, d) ==
    \E W1 \in {Country_update(World, c, d)} :
       \E a \in AiInputs(W1, c) :
          /\ SetWorld(IF ~W1.country[c].is_player THEN ai_make_decisions(W1, c, a)
                      ELSE W1)
          /\ last' = [op |-> "Country.update", country |-> c, fire |-> d.fire,
                      event |-> d.event]

\* DiplomacySystem.update_ai_diplomacy
DoUpdateAiDiplomacy(draws) ==
    /\ SetWorld(update_ai_diplomacy(World, CountryList(World), draws))
    /\ last' = [op |-> "update_ai_diplomacy"]

\* DiplomacySystem.resolve_wars
DoResolveWars(ends) ==
    /\ SetWorld(resolve_wars(World, RelationKeys(World), ends))
    /\ last' = [op |-> "resolve_wars"]

\* the number of random events that fired in the last hundred ticks
EventsFired ==
    LET F[n \in 0..Len(Setup)] ==
            IF n = 0 THEN 0
            ELSE F[n - 1] + (IF n \in DOMAIN country
                             THEN Cardinality({k \in EventKinds :
                                                 country[n].event_cooldown[k] > 0})
                             ELSE 0)
    IN  F[Len(Setup)]

----------------------------------------------------------------------------
(* Inputs and bounds *)

\* most calls from outside a tick, ticks, and random events in a run of the world
MaxSteps == 2

MaxTicks == 1

MaxEvents == 1

\* rates passed to set_tax_rate: negative, below the minimum, inside the
\* range, above the maximum and above 1
TaxInputs == {-1000, 300, 2500, 6000, 15000}

\* the ends of a budget slider of the interface, 0 and 0.4
SliderInputs == {<<0, 1>>, <<2, 5>>}

\* the draws of random.uniform(5, 15) of improve_relations
Improvements == {5, 15}

\* the draws of random.uniform(-2, 2) of pass_law
LawChanges == {-200, 200}

\* laws passed to pass_law: two of the law book and one that is not in it
LawInputs == {"freedom_of_press", "universal_healthcare", "curfew"}

\* types passed to change_government_type: the four types and an unknown one
TypeInputs == GovTypeNames \cup {"theocracy"}

\* whether update_government will hold an election (line 89)
ElectionDue(g) ==
    g.next_election <= 0 /\ GOVERNMENT_TYPES[g.type].election_frequency > 0

\* the draws of one Country.update of country c: without an event, and with
\* each event that is not on cooldown
UpdateInputs(c) ==
    LET noises == IF ElectionDue(government[c]) THEN ElectionNoise ELSE {NoNoise}
    IN  {UpdateDraws(luck, noise) @@ EventDraws("none", luck)
            @@ [fire |-> FALSE, event |-> "none"]
            : luck \in Luck, noise \in noises}
        \cup
        {UpdateDraws(luck, noise) @@ EventDraws(event, luck)
            @@ [fire |-> TRUE, event |-> event]
            : luck \in Luck, noise \in noises, event \in AvailableEvents(World, c)}

\* the draws of update_ai_diplomacy: one per ordered pair visited; the larger
\* improvement is told from the smaller only for a pair that can reach the
\* improve_relations branch, whose relation is below 0
AiDiplomacyInputs ==
    LET pairs == AiPairs(World, CountryList(World), 1)
    IN  {draws \in [1..Len(pairs) -> {0} \cup Improvements] :
            \A i \in 1..Len(pairs) :
                draws[i] = 15 =>
                    relations[get_relation_key(pairs[i][1], pairs[i][2])]
                        .relation_value < 0}

\* the draws of resolve_wars: one per relation, FALSE where there is no war
WarInputs ==
    {ends \in [1..Cardinality(DOMAIN relations) -> BOOLEAN] :
        \A i \in DOMAIN ends :
            ends[i] => relations[RelationKeys(World)[i]].at_war}

----------------------------------------------------------------------------
(* The simulation: the player's commands between ticks, and WorldMap.update *)

Init ==
    \E values \in [RelationKeySet(WorldRoster) -> {-30, 10}] :
        /\ \A k \in RelationKeySet(WorldRoster) : values[k] \in InitialRelationValues(k)
        /\ InitWorld(WorldRoster, values)

Command == phase = Idle /\ steps < MaxSteps /\ steps' = steps + 1
             /\ UNCHANGED <<phase, ticks>>

\* GameUI.on_tax_change
SetTaxRate ==
    /\ Command
    /\ \E new_rate \in TaxInputs : DoSetTaxRate(Player, new_rate)

\* GameUI.on_budget_change
AllocateBudget ==
    /\ Command
    /\ \E cat \in CategorySet, value \in SliderInputs :
          DoAllocateBudget(Player, [NoArgs EXCEPT ![cat] = value])

\* GameUI.diplomatic_action
DiplomaticAction ==
    /\ Command
    /\ \E target \in DOMAIN country \ {Player}, action \in DiplomaticActions,
          improvement \in Improvements :
          /\ action # "improve_relations" => improvement = 5
          /\ DoDiplomaticAction(Player, target, action, TRUE, improvement)

\* GameUI.on_government_change
ChangeGovernment ==
    /\ Command
    /\ \E new_type \in TypeInputs, change \in GovernmentChanges :
          DoChangeGovernmentType(Player, new_type, change)

\* the pass_law command
PassLaw ==
    /\ Command
    /\ \E law_name \in LawInputs, value \in BOOLEAN, change \in LawChanges :
          DoPassLaw(Player, law_name, value, change)

\* one turn of the loop of WorldMap.update (lines 111-116); the first turn
\* starts a tick
CountryUpdate ==
    \E i \in 1..Len(CountryList(World)) :
        /\ \/ phase = Idle /\ i = 1 /\ ticks < MaxTicks
           \/ phase = [at |-> "countries", next |-> i]
        /\ \E d \in UpdateInputs(CountryList(World)[i]) :
              /\ d.fire => EventsFired < MaxEvents
              /\ DoCountryUpdate(CountryList(World)[i], d)
        /\ phase' = IF i < Len(CountryList(World))
                    THEN [at |-> "countries", next |-> i + 1]
                    ELSE [at |-> "ai_diplomacy", next |-> 0]
        /\ UNCHANGED <<ticks, steps>>

\* WorldMap.update, line 119
UpdateAiDiplomacy ==
    /\ phase = [at |-> "ai_diplomacy", next |-> 0]
    /\ \E draws \in AiDiplomacyInputs : DoUpdateAiDiplomacy(draws)
    /\ phase' = [at |-> "resolve_wars", next |-> 0]
    /\ UNCHANGED <<ticks, steps>>

\* WorldMap.update, line 120, which ends the tick
ResolveWars ==
    /\ phase = [at |-> "resolve_wars", next |-> 0]
    /\ \E ends \in WarInputs : DoResolveWars(ends)
    /\ phase' = Idle
    /\ ticks' = ticks + 1
    /\ UNCHANGED steps

Next ==
    \/ SetTaxRate
    \/ AllocateBudget
    \/ DiplomaticAction
    \/ ChangeGovernment
    \/ PassLaw
    \/ CountryUpdate
    \/ UpdateAiDiplomacy
    \/ ResolveWars

Spec == Init /\ [][Next]_vars

----------------------------------------------------------------------------
(* The Economy of an AI country taken alone: the calls that write its tax    *)
(* rate and its spending shares                                              *)

MaxEconomySteps == 3

\* the country whose Economy is followed: the first AI country of the list
Subject == 2

\* arguments of allocate_budget: below 0, inside [0, 1] and above 1, for no
\* category, one, two or all five
BudgetValues == {<<-1, 10>>, <<2, 5>>, <<3, 2>>}

BudgetArgs ==
    {NoArgs}
    \cup {[NoArgs EXCEPT ![c1] = v1] : c1 \in CategorySet, v1 \in BudgetValues}
    \cup {[NoArgs EXCEPT !.healthcare_spending = pr[1], !.education_spending = pr[2]] :
            pr \in {<<<<-1, 10>>, <<3, 2>>>>, <<<<3, 2>>, <<2, 5>>>>,
                    <<<<2, 5>>, <<-1, 10>>>>}}
    \cup {[c \in CategorySet |-> v] : v \in BudgetValues}

\* the constructed world, or the world once the subject has been updated
InitEconomy ==
    \E updated \in BOOLEAN, luck \in Luck :
        LET W0 == [economy |->
                     [c \in {1, 2} |-> NewEconomy(Setup[c].initial_gdp,
                                                  Setup[c].initial_population)],
                   population |->
                     [c \in {1, 2} |-> NewPopulation(Setup[c].initial_population)],
                   government |->
                     [c \in {1, 2} |-> NewGovernment(Setup[c].government_type)],
                   country |->
                     [c \in {1, 2} |->
                        [NewCountry(Setup[c].traits, Setup[c].military_strength)
                            EXCEPT !.is_player = (c = 1)]],
                   relations |-> [k \in {<<1, 2>>} |-> NewRelation(1, 2, -30)],
                   recent_actions |-> <<>>]
        IN  \E W1 \in {IF updated
                        THEN Country_update(W0, Subject,
                                 UpdateDraws(luck, NoNoise) @@ EventDraws("none", luck)
                                   @@ [fire |-> FALSE, event |-> "none"])
                        ELSE W0} :
            /\ updated \/ luck = "low"
            /\ economy = W1.economy
            /\ population = W1.population
            /\ government = W1.government
            /\ country = W1.country
            /\ relations = W1.relations
            /\ recent_actions = W1.recent_actions
            /\ phase = Idle
            /\ last = [op |-> "WorldMap"]
            /\ ticks = 0
            /\ steps = 0

EconomyCall == steps < MaxEconomySteps /\ steps' = steps + 1
                 /\ UNCHANGED <<phase, ticks>>

\* Economy.set_tax_rate
EconomySetTaxRate ==
    /\ EconomyCall
    /\ \E new_rate \in TaxInputs : DoSetTaxRate(Subject, new_rate)

\* Economy.allocate_budget
EconomyAllocateBudget ==
    /\ EconomyCall
    /\ \E args \in BudgetArgs : DoAllocateBudget(Subject, args)

\* the rate ai_make_decisions passes to set_tax_rate (lines 195-200), None when
\* it passes none
AiTaxRate(W, c) ==
    IF get_approval_rating(W.population[c]) < 4000
    THEN <<(W.economy[c].tax_rate * 99) \div 100>>
    ELSE IF get_economic_health(W.economy[c]) < 4000
         THEN <<(W.economy[c].tax_rate * 101) \div 100>>
         ELSE None

\* Country.ai_make_decisions
EconomyAiDecisions ==
    /\ EconomyCall
    /\ \E a \in AiInputs(World, Subject) :
          SetWorld(ai_make_decisions(World, Subject, a))
    /\ last' = [op |-> "ai_make_decisions", country |-> Subject,
                new_rate |-> AiTaxRate(World, Subject)]

\* a war declared on the subject by the player (diplomacy.py, lines 148-162),
\* which raises its military share
EconomyWarDeclaration ==
    /\ EconomyCall
    /\ DoDiplomaticAction(Player, Subject, "war_declaration", TRUE, 5)

NextEconomy ==
    \/ EconomySetTaxRate
    \/ EconomyAllocateBudget
    \/ EconomyAiDecisions
    \/ EconomyWarDeclaration

SpecEconomy == InitEconomy /\ [][NextEconomy]_vars

----------------------------------------------------------------------------
(* The Government of the player's country taken alone: every method that     *)
(* writes it, called in any order                                            *)

MaxGovernmentSteps == 3

\* approval ratings and economic healths passed to update_government
ApprovalInputs == {0, 5000, 10000}

HealthInputs == {0, 10000}

PoliticalEvents == {"corruption_scandal", "successful_reform", "coup_attempt",
                    "protest"}

InitGovernment == InitWorld(WorldRoster, [k \in RelationKeySet(WorldRoster) |-> 10])

GovernmentCall == steps < MaxGovernmentSteps /\ steps' = steps + 1
                    /\ UNCHANGED <<phase, ticks>>

SetGovernment(c, g, call) ==
    /\ government' = [government EXCEPT ![c] = g]
    /\ last' = call
    /\ UNCHANGED <<economy, population, country, relations, recent_actions>>

\* Government.update_government
GovernmentUpdate ==
    /\ GovernmentCall
    /\ \E approval \in ApprovalInputs, economic_health \in HealthInputs, luck \in Luck,
          noise \in IF ElectionDue(government[Player]) THEN ElectionNoise
                    ELSE {NoNoise} :
          SetGovernment(Player,
                        update_government(government[Player], approval,
                                          economic_health, UpdateDraws(luck, noise)),
                        [op |-> "update_government", country |-> Player])

\* Government.trigger_political_event
GovernmentEvent ==
    /\ GovernmentCall
    /\ \E event_type \in PoliticalEvents, luck \in Luck :
          SetGovernment(Player,
                        trigger_political_event(government[Player], event_type,
                                                EventDraws(event_type, luck)),
                        [op |-> "trigger_political_event", country |-> Player,
                         event_type |-> event_type])

\* Government.hold_election, when its division is defined
GovernmentElection ==
    /\ GovernmentCall
    /\ \E noise \in ElectionNoise :
          /\ ElectionTotal(government[Player], noise) # 0
          /\ SetGovernment(Player, hold_election(government[Player], noise),
                           [op |-> "hold_election", country |-> Player,
                            ruling_party |-> government[Player].ruling_party])

\* Government.change_government_type
GovernmentChangeType ==
    /\ GovernmentCall
    /\ \E new_type \in TypeInputs, change \in GovernmentChanges :
          DoChangeGovernmentType(Player, new_type, change)

\* Government.pass_law
GovernmentPassLaw ==
    /\ GovernmentCall
    /\ \E law_name \in LawInputs, value \in BOOLEAN, change \in LawChanges :
          DoPassLaw(Player, law_name, value, change)

NextGovernment ==
    \/ GovernmentUpdate
    \/ GovernmentEvent
    \/ GovernmentElection
    \/ GovernmentChangeType
    \/ GovernmentPassLaw

SpecGovernment == InitGovernment /\ [][NextGovernment]_vars

----------------------------------------------------------------------------
(* One DiplomaticRelation taken alone, from any setting of its value and     *)
(* flags a caller can make                                                   *)

MaxRelationSteps == 2

RelationValues == {-100, -85, -60, 0, 60, 100}

\* the deltas the program passes to update_relation, with 0 and 4
RelationChanges == {-30, -10, 0, 4, 5, 10, 15, 20}

TheRelation == <<1, 2>>

InitRelation ==
    \E value \in RelationValues, alliance \in BOOLEAN, trade_deal \in BOOLEAN :
        /\ population = [c \in {1, 2} |-> NewPopulation(Setup[c].initial_population)]
        /\ government = [c \in {1, 2} |-> NewGovernment(Setup[c].government_type)]
        /\ economy = [c \in {1, 2} |-> NewEconomy(Setup[c].initial_gdp,
                                                  Setup[c].initial_population)]
        /\ country = [c \in {1, 2} |->
                        [NewCountry(Setup[c].traits, Setup[c].military_strength)
                            EXCEPT !.is_player = (c = 1)]]
        /\ relations = [k \in {TheRelation} |->
                          [NewRelation(1, 2, value) EXCEPT !.alliance = alliance,
                                                           !.trade_deal = trade_deal]]
        /\ recent_actions = <<>>
        /\ phase = Idle
        /\ last = [op |-> "DiplomaticRelation"]
        /\ ticks = 0
        /\ steps = 0

\* DiplomaticRelation.update_relation
RelationUpdate ==
    /\ steps < MaxRelationSteps
    /\ steps' = steps + 1
    /\ \E change \in RelationChanges :
          /\ relations' = [relations EXCEPT ![TheRelation] = update_relation(@, change)]
          /\ last' = [op |-> "update_relation", change |-> change,
                      before |-> relations[TheRelation]]
    /\ UNCHANGED <<economy, population, government, country, recent_actions,
                   phase, ticks>>

NextRelation == RelationUpdate

SpecRelation == InitRelation /\ [][NextRelation]_vars

----------------------------------------------------------------------------
(* The DiplomacySystem taken alone: the player's actions, the AI's and the   *)
(* resolution of wars, in any order                                          *)

MaxDiplomacySteps == 4

\* most calls of update_ai_diplomacy and resolve_wars together
MaxDiplomacyRounds == 1

InitDiplomacy ==
    \E roster \in DiplomacyRosters :
        \E values \in [RelationKeySet(roster) -> {-30, 10, 22}] :
            /\ \A k \in RelationKeySet(roster) : values[k] \in InitialRelationValues(k)
            /\ InitWorld(roster, values)

DiplomacyCall == steps < MaxDiplomacySteps /\ steps' = steps + 1
                   /\ UNCHANGED <<phase, ticks>>

\* perform_diplomatic_action, called for the player
DiplomacyAction ==
    /\ DiplomacyCall
    /\ \E target \in DOMAIN country \ {Player}, action \in DiplomaticActions,
          improvement \in Improvements :
          /\ action # "improve_relations" => improvement = 5
          /\ DoDiplomaticAction(Player, target, action, TRUE, improvement)

DiplomacyRound == ticks < MaxDiplomacyRounds /\ ticks' = ticks + 1
                    /\ UNCHANGED <<phase, steps>>

\* update_ai_diplomacy
DiplomacyAi ==
    /\ DiplomacyRound
    /\ \E draws \in AiDiplomacyInputs : DoUpdateAiDiplomacy(draws)

\* resolve_wars
DiplomacyResolveWars ==
    /\ DiplomacyRound
    /\ \E ends \in WarInputs : DoResolveWars(ends)

NextDiplomacy ==
    \/ DiplomacyAction
    \/ DiplomacyAi
    \/ DiplomacyResolveWars

SpecDiplomacy == InitDiplomacy /\ [][NextDiplomacy]_vars

----------------------------------------------------------------------------
(* The queries called between the player's diplomatic actions                *)

MaxQuerySteps == 3

\* get_full_stats, get_diplomatic_summary or get_world_stats
QueryStats ==
    /\ steps < MaxQuerySteps /\ steps' = steps + 1
    /\ UNCHANGED <<phase, ticks>>
    /\ \E q \in Queries, c \in DOMAIN country :
          /\ q = "get_world_stats" => c = Player
          /\ DoQuery(q, c)

\* perform_diplomatic_action, called for the player
QueryCommand ==
    /\ steps < MaxQuerySteps /\ steps' = steps + 1
    /\ UNCHANGED <<phase, ticks>>
    /\ \E target \in DOMAIN country \ {Player}, action \in DiplomaticActions :
          DoDiplomaticAction(Player, target, action, TRUE, 5)

SpecQueries == InitDiplomacy /\ [][QueryStats \/ QueryCommand]_vars

----------------------------------------------------------------------------
(* The log of diplomatic actions: the player improving its relations, which *)
(* always succeeds, and giving aid                                           *)

MaxLogSteps == 11

\* perform_diplomatic_action, called for the player
LogAction ==
    /\ steps < MaxLogSteps /\ steps' = steps + 1
    /\ UNCHANGED <<phase, ticks>>
    /\ \E target \in DOMAIN country \ {Player},
          action \in {"improve_relations", "foreign_aid"} :
          DoDiplomaticAction(Player, target, action, TRUE, 5)

SpecActionLog == InitDiplomacy /\ [][LogAction]_vars

----------------------------------------------------------------------------
(* Calls with arguments the core does not know: a government type, a law, a  *)
(* country with no relation to the actor, among calls with known ones        *)

MaxInvalidSteps == 2

\* Government.change_government_type
InvalidChangeType ==
    /\ steps < MaxInvalidSteps /\ steps' = steps + 1
    /\ UNCHANGED <<phase, ticks>>
    /\ \E new_type \in TypeInputs, change \in GovernmentChanges :
          DoChangeGovernmentType(Player, new_type, change)

\* Government.pass_law
InvalidPassLaw ==
    /\ steps < MaxInvalidSteps /\ steps' = steps + 1
    /\ UNCHANGED <<phase, ticks>>
    /\ \E law_name \in LawInputs, value \in BOOLEAN, change \in LawChanges :
          DoPassLaw(Player, law_name, value, change)

\* perform_diplomatic_action with any country as the target: the actor
\* itself and a country the DiplomacySystem was not given included
InvalidAction ==
    /\ steps < MaxInvalidSteps /\ steps' = steps + 1
    /\ UNCHANGED <<phase, ticks>>
    /\ \E target \in 1..Len(Setup),
          action \in {"improve_relations", "war_declaration", "sanctions"} :
          DoDiplomaticAction(Player, target, action, TRUE, 5)

SpecInvalid ==
    InitDiplomacy /\ [][InvalidChangeType \/ InvalidPassLaw \/ InvalidAction]_vars

----------------------------------------------------------------------------
(* War and peace between the player and its neighbour, the player setting   *)
(* its military share in between                                             *)

MaxPeaceSteps == 4

\* Economy.allocate_budget(military = ...) from the player's slider
PeaceBudget ==
    /\ steps < MaxPeaceSteps /\ steps' = steps + 1
    /\ UNCHANGED <<phase, ticks>>
    /\ \E military \in {<<0, 1>>, <<2, 100>>} :
          DoAllocateBudget(Player, [NoArgs EXCEPT !.military_spending = military])

\* perform_diplomatic_action, called for the player
PeaceAction ==
    /\ steps < MaxPeaceSteps /\ steps' = steps + 1
    /\ UNCHANGED <<phase, ticks>>
    /\ \E target \in DOMAIN country \ {Player},
          action \in {"war_declaration", "peace_treaty", "improve_relations",
                      "alliance", "sanctions"} :
          DoDiplomaticAction(Player, target, action, TRUE, 15)

SpecPeace == InitDiplomacy /\ [][PeaceBudget \/ PeaceAction]_vars

----------------------------------------------------------------------------
(* The AI: ai_make_decisions called on any country, the player included,    *)
(* and the two places WorldMap.update runs the AI from                       *)

MaxAiSteps == 2

\* Country.ai_make_decisions
AiDecisions ==
    /\ steps < MaxAiSteps /\ steps' = steps + 1
    /\ UNCHANGED <<phase, ticks>>
    /\ \E c \in DOMAIN country :
          \E a \in AiInputs(World, c) :
             /\ SetWorld(ai_make_decisions(World, c, a))
             /\ last' = [op |-> "ai_make_decisions", country |-> c]

\* the body of the loop of WorldMap.update
AiUpdate ==
    /\ steps < MaxAiSteps /\ steps' = steps + 1
    /\ UNCHANGED <<phase, ticks>>
    /\ \E c \in DOMAIN country : \E d \in UpdateInputs(c) : DoCountryUpdate(c, d)

\* update_ai_diplomacy
AiDiplomacy ==
    /\ steps < MaxAiSteps /\ steps' = steps + 1
    /\ UNCHANGED <<phase, ticks>>
    /\ \E draws \in AiDiplomacyInputs : DoUpdateAiDiplomacy(draws)

SpecAi == Init /\ [][AiDecisions \/ AiUpdate \/ AiDiplomacy]_vars

----------------------------------------------------------------------------

(* The election calendar: update_government called on the player's          *)
(* democracy month after month, as the game loop does without end           *)

\* months followed: a year more than the four of a democracy's term
MaxElectionTicks == 60

\* Government.update_government; last.election tells whether the test of line
\* 89 passed and hold_election ran
ElectionsTick ==
    /\ ticks < MaxElectionTicks /\ ticks' = ticks + 1
    /\ UNCHANGED <<phase, steps>>
    /\ \E luck \in Luck,
          noise \in IF ElectionDue(government[Player]) THEN ElectionNoise
                    ELSE {NoNoise} :
          SetGovernment(Player,
                        update_government(government[Player], 5000, 10000,
                                          UpdateDraws(luck, noise)),
                        [op |-> "update_government", country |-> Player,
                         election |-> ElectionDue(government[Player])])

SpecElections == InitGovernment /\ [][ElectionsTick]_vars /\ WF_vars(ElectionsTick)

----------------------------------------------------------------------------

(* One WorldMap.update after the player's diplomatic actions                 *)

SpecTick ==
    Init /\ [][DiplomaticAction \/ CountryUpdate \/ UpdateAiDiplomacy \/ ResolveWars]_vars

----------------------------------------------------------------------------

(* The wars of the player and one neighbour, whose military strengths are any *)
(* draws of random.uniform(0.5, 1.5)                                         *)

MaxWarSteps == 4

InitWar ==
    \E m1 \in {50, 100, 150}, m2 \in {50, 100, 150} :
        /\ population = [c \in {1, 2} |-> NewPopulation(Setup[c].initial_population)]
        /\ government = [c \in {1, 2} |-> NewGovernment(Setup[c].government_type)]
        /\ economy = [c \in {1, 2} |-> NewEconomy(Setup[c].initial_gdp,
                                                  Setup[c].initial_population)]
        /\ country = [c \in {1, 2} |->
                        [NewCountry(Setup[c].traits, IF c = 1 THEN m1 ELSE m2)
                            EXCEPT !.is_player = (c = 1)]]
        /\ relations = [k \in {TheRelation} |-> NewRelation(1, 2, -30)]
        /\ recent_actions = <<>>
        /\ phase = Idle
        /\ last = [op |-> "WorldMap"]
        /\ ticks = 0
        /\ steps = 0

\* the player declares war, or the world's resolve_wars runs
SpecWar ==
    InitWar /\ [][/\ steps < MaxWarSteps /\ steps' = steps + 1
                  /\ UNCHANGED <<phase, ticks>>
                  /\ \/ DoDiplomaticAction(Player, 2, "war_declaration", TRUE, 5)
                     \/ \E ends \in WarInputs : DoResolveWars(ends)]_vars

----------------------------------------------------------------------------

(* The cooldown of one kind of random event over a hundred calls of          *)
(* Country.update on the subject, the draws of each call at their low ends   *)

MaxCooldownSteps == 101

\* Country.update, in which a protest fires or no event does; last.fired tells
\* whether a protest has fired and last.since counts the updates since it did
SpecCooldown ==
    /\ InitWorld(WorldRoster, [k \in RelationKeySet(WorldRoster) |-> 10])
    /\ [][/\ steps < MaxCooldownSteps /\ steps' = steps + 1
          /\ UNCHANGED <<phase, ticks>>
          /\ \E fire \in BOOLEAN :
                /\ fire => "protest" \in AvailableEvents(World, Subject)
                /\ SetWorld(Country_update(World, Subject,
                       UpdateDraws("low", NoNoise) @@ EventDraws("protest", "low")
                          @@ [fire |-> fire, event |-> "protest"]))
                /\ last' = [op |-> "Country.update", country |-> Subject,
                            fire |-> fire, event |-> "protest",
                            fired |-> fire \/ (steps > 0 /\ last.fired),
                            since |-> IF fire \/ steps = 0 THEN 0
                                      ELSE last.since + 1]]_vars

----------------------------------------------------------------------------

(* The random events of the player's country once the player has moved the  *)
(* whole budget to healthcare and education and the laws passed have raised *)
(* the stability                                                             *)

\* most laws passed before the updates, each with the draw of +2
MaxLawsPassed == 15

MaxProtestSteps == 2

InitProtest ==
    \E n \in 0..MaxLawsPassed, moved \in BOOLEAN :
        LET cs == {WorldRoster[i] : i \in 1..Len(WorldRoster)}
            G[i \in 0..n] ==
                IF i = 0 THEN NewGovernment(Setup[WorldRoster[1]].government_type)
                ELSE pass_law(G[i - 1], "death_penalty", i % 2 = 1, 200)
            E(c) == NewEconomy(Setup[c].initial_gdp, Setup[c].initial_population)
        IN  /\ economy =
                 [c \in cs |->
                    IF c = WorldRoster[1] /\ moved
                    THEN allocate_budget(E(c),
                            [healthcare_spending |-> <<1, 2>>,
                             education_spending |-> <<1, 2>>,
                             military_spending |-> <<0, 1>>,
                             infrastructure_spending |-> <<0, 1>>,
                             welfare_spending |-> <<0, 1>>])
                    ELSE E(c)]
            /\ population = [c \in cs |-> NewPopulation(Setup[c].initial_population)]
            /\ government = [c \in cs |->
                               IF c = WorldRoster[1] THEN G[n]
                               ELSE NewGovernment(Setup[c].government_type)]
            /\ country = [c \in cs |->
                            [NewCountry(Setup[c].traits, Setup[c].military_strength)
                                EXCEPT !.is_player = (c = WorldRoster[1])]]
            /\ relations = [k \in RelationKeySet(WorldRoster) |->
                               NewRelation(k[1], k[2], 10)]
            /\ recent_actions = <<>>
            /\ phase = Idle
            /\ last = [op |-> "pass_law", country |-> WorldRoster[1], passed |-> n]
            /\ ticks = 0
            /\ steps = 0

\* the body of the loop of WorldMap.update for the player's country
SpecProtest ==
    InitProtest /\ [][/\ steps < MaxProtestSteps /\ steps' = steps + 1
                      /\ UNCHANGED <<phase, ticks>>
                      /\ \E d \in UpdateInputs(Player) :
                            DoCountryUpdate(Player, d)]_vars

----------------------------------------------------------------------------

(* Sanctions followed by the actions that mend a relation                    *)

MaxSanctionSteps == 7

\* most calls of update_ai_diplomacy and resolve_wars together
MaxSanctionRounds == 1

\* perform_diplomatic_action called for the player, each improvement drawn at
\* its high end; update_ai_diplomacy; resolve_wars
SpecSanctions ==
    InitDiplomacy
       /\ [][\/ /\ steps < MaxSanctionSteps /\ steps' = steps + 1
                /\ UNCHANGED <<phase, ticks>>
                /\ \E target \in DOMAIN country \ {Player},
                      action \in {"sanctions", "improve_relations", "foreign_aid",
                                  "trade_deal", "alliance", "peace_treaty"} :
                      DoDiplomaticAction(Player, target, action, TRUE, 15)
             \/ /\ ticks < MaxSanctionRounds /\ ticks' = ticks + 1
                /\ UNCHANGED <<phase, steps>>
                /\ \E draws \in AiDiplomacyInputs : DoUpdateAiDiplomacy(draws)
             \/ /\ ticks < MaxSanctionRounds /\ ticks' = ticks + 1
                /\ UNCHANGED <<phase, steps>>
                /\ \E ends \in WarInputs : DoResolveWars(ends)]_vars

----------------------------------------------------------------------------

(* The party popularities over consecutive calls of update_government        *)

MaxPopularityTicks == 5

\* Government.update_government on the player's government
SpecPopularity ==
    InitGovernment
       /\ [][/\ steps < MaxPopularityTicks /\ steps' = steps + 1
             /\ UNCHANGED <<phase, ticks>>
             /\ \E approval \in ApprovalInputs, economic_health \in HealthInputs,
                   luck \in Luck,
                   noise \in IF ElectionDue(government[Player]) THEN ElectionNoise
                             ELSE {NoNoise} :
                   SetGovernment(Player,
                       update_government(government[Player], approval,
                                         economic_health, UpdateDraws(luck, noise)),
                       [op |-> "update_government", country |-> Player,
                        approval |-> approval,
                        economic_health |-> economic_health])]_vars

----------------------------------------------------------------------------

(* The event log of one country: Country.update called on a country whose    *)
(* recent_events already holds entries                                       *)

\* most entries recent_events holds when the updates begin
MaxLogged == 10

MaxEventSteps == 2

\* the kinds of the entries logged before the updates begin, in order
LoggedKinds == <<"economic_boom", "recession", "tech_breakthrough", "corruption_scandal">>

\* the world once Country.handle_event has logged n events on country c
RECURSIVE AfterEvents(_, _, _)
AfterEvents(W, c, n) ==
    IF n = 0 THEN W
    ELSE With(AfterEvents(W, c, n - 1), LAMBDA W1 :
            Country_handle_event(W1, c, LoggedKinds[((n - 1) % Len(LoggedKinds)) + 1],
                                 EventDraws(LoggedKinds[((n - 1) % Len(LoggedKinds)) + 1],
                                            "low")))

InitEvents ==
    \E n \in 0..MaxLogged :
        LET cs == {WorldRoster[i] : i \in 1..Len(WorldRoster)}
            W0 == [economy |->
                     [c \in cs |-> NewEconomy(Setup[c].initial_gdp,
                                              Setup[c].initial_population)],
                   population |->
                     [c \in cs |-> NewPopulation(Setup[c].initial_population)],
                   government |->
                     [c \in cs |-> NewGovernment(Setup[c].government_type)],
                   country |->
                     [c \in cs |->
                        [NewCountry(Setup[c].traits, Setup[c].military_strength)
                            EXCEPT !.is_player = (c = WorldRoster[1])]],
                   relations |-> [k \in RelationKeySet(WorldRoster) |->
                                     NewRelation(k[1], k[2], 10)],
                   recent_actions |-> <<>>]
        IN  \E W1 \in {AfterEvents(W0, Subject, n)} :
            /\ economy = W1.economy
            /\ population = W1.population
            /\ government = W1.government
            /\ country = W1.country
            /\ relations = W1.relations
            /\ recent_actions = W1.recent_actions
            /\ phase = Idle
            /\ last = [op |-> "Country.handle_event", country |-> Subject, logged |-> n]
            /\ ticks = 0
            /\ steps = 0

\* the body of the loop of WorldMap.update for the subject
EventsUpdate ==
    /\ steps < MaxEventSteps /\ steps' = steps + 1
    /\ UNCHANGED <<phase, ticks>>
    /\ \E d \in UpdateInputs(Subject) : DoCountryUpdate(Subject, d)

SpecEvents == InitEvents /\ [][EventsUpdate]_vars

----------------------------------------------------------------------------
(* Range claims on the simulation *)

\* C1: Government.stability is within [0, 100] in every state reachable by
\* ticks, diplomatic actions, pass_law, change_government_type and political
\* events, the state at the end of a tick included
C1_StabilityInRange ==
    \A c \in DOMAIN government :
        government[c].stability >= 0 /\ government[c].stability <= 10000

\* C2: Population.happiness is within [0, 100] in every state reachable by
\* ticks, epidemics, sanctions and war attrition
C2_HappinessInRange ==
    \A c \in DOMAIN population :
        population[c].happiness >= 0 /\ population[c].happiness <= 10000

\* C4: each of the five spending shares of every Economy is within [0, 1] and
\* the five sum to at most 1, after any sequence of allocate_budget calls, war
\* declarations, peace treaties and war resolutions
C4_SharesInRange ==
    \A c \in DOMAIN economy :
        /\ \A cat \in CategorySet :
              economy[c][cat] >= 0 /\ economy[c][cat] <= economy[c].share_den
        /\ ShareTotal(economy[c]) <= economy[c].share_den


\* C3: Government.corruption is within [0, 100] in every state reachable by
\* update_government calls and political events (corruption_scandal,
\* successful_reform)
C3_CorruptionInRange ==
    \A c \in DOMAIN government :
        government[c].corruption >= 0 /\ government[c].corruption <= 10000

----------------------------------------------------------------------------
(* Economy.set_tax_rate and Economy.allocate_budget *)

\* C6: set_tax_rate(v) leaves tax_rate at v clamped into [MIN_TAX_RATE,
\* MAX_TAX_RATE] for every v, and tax_rate is within that range in every
\* reachable state, the AI's x0.99 and x1.01 adjustments included
C6_TaxRateClamped ==
    /\ \A c \in DOMAIN economy :
          economy[c].tax_rate >= MIN_TAX_RATE /\ economy[c].tax_rate <= MAX_TAX_RATE
    /\ last.op = "set_tax_rate" =>
          economy[last.country].tax_rate =
              IF last.new_rate < MIN_TAX_RATE THEN MIN_TAX_RATE
              ELSE IF last.new_rate > MAX_TAX_RATE THEN MAX_TAX_RATE
              ELSE last.new_rate

\* the AI has lowered a tax rate that stood at the minimum: it passed a rate
\* below MIN_TAX_RATE, and the rate stayed at the minimum
C6_AiRateClampedAtMinimum ==
    /\ last.op = "ai_make_decisions"
    /\ last.new_rate # None
    /\ last.new_rate[1] < MIN_TAX_RATE
    /\ economy[last.country].tax_rate = MIN_TAX_RATE

\* C5: from an Economy with non-negative shares and for every subset of
\* arguments, allocate_budget clamps each passed share to [0, 1], then, if the
\* five shares sum to more than 1, scales all five by the same factor 1 / sum;
\* on return each share is in [0, 1], the five sum to at most 1, and
\* other_spending is 1 minus that sum (0 after a rescale).  The shares before
\* and after are compared as fractions over the common denominator D
C5_AllocateBudget ==
    [][last'.op = "allocate_budget" =>
        LET e == economy[last'.country]
            e1 == economy'[last'.country]
            args == last'.args
            ArgDen(cat) == IF args[cat] = None THEN 1 ELSE args[cat][2]
            D == LCM(e.share_den,
                     LCM(ArgDen("healthcare_spending"),
                     LCM(ArgDen("education_spending"),
                     LCM(ArgDen("military_spending"),
                     LCM(ArgDen("infrastructure_spending"),
                         ArgDen("welfare_spending"))))))
            \* the share of cat once the arguments are clamped, over D
            Clamped(cat) ==
                IF args[cat] = None THEN e[cat] * (D \div e.share_den)
                ELSE LET n == args[cat][1] * (D \div args[cat][2])
                     IN  IF n < 0 THEN 0 ELSE IF n > D THEN D ELSE n
            total == Clamped("healthcare_spending") + Clamped("education_spending")
                       + Clamped("military_spending")
                       + Clamped("infrastructure_spending")
                       + Clamped("welfare_spending")
        IN  (\A cat \in CategorySet : e[cat] >= 0) =>
              /\ \A cat \in CategorySet :
                    /\ e1[cat] >= 0 /\ e1[cat] <= e1.share_den
                    /\ IF total > D
                       THEN e1[cat] * total = Clamped(cat) * e1.share_den
                       ELSE e1[cat] * D = Clamped(cat) * e1.share_den
              /\ ShareTotal(e1) <= e1.share_den
              /\ total > D => ShareTotal(e1) = e1.share_den
              /\ e1.other_spending = e1.share_den - ShareTotal(e1)
              /\ total > D => e1.other_spending = 0]_vars

\* allocate_budget has clamped an argument above 1 and rescaled the shares
C5_ClampedAndRescaled ==
    /\ last.op = "allocate_budget"
    /\ last.args.healthcare_spending = <<3, 2>>
    /\ last.args.education_spending = None
    /\ economy[last.country].other_spending = 0
    /\ ShareTotal(economy[last.country]) = economy[last.country].share_den
    /\ economy[last.country].healthcare_spending * 2
          < economy[last.country].share_den

----------------------------------------------------------------------------
(* DiplomaticRelation.update_relation *)

----------------------------------------------------------------------------
(* DiplomacySystem.perform_diplomatic_action *)

\* C7: for each gated action (TRADE_DEAL, ALLIANCE, WAR_DECLARATION,
\* PEACE_TREATY, SANCTIONS, FOREIGN_AID), when its precondition is false
\* perform_diplomatic_action returns success = false with a non-empty reason
\* and leaves the relation, both countries' economy and population and the
\* recent_actions log unchanged
C7_RejectedActionChangesNothing ==
    [][last'.op = "perform_diplomatic_action" =>
        LET actor == last'.actor
            target == last'.target
            action == last'.action
            key == get_relation_key(actor, target)
            r == relations[key]
            gate == CASE action = "trade_deal" -> r.relation_value > 20 /\ ~r.at_war
                      [] action = "alliance" -> r.relation_value > 50 /\ ~r.at_war
                      [] action = "war_declaration" -> ~r.alliance
                      [] action = "peace_treaty" -> r.at_war
                      [] action = "sanctions" -> ~r.alliance /\ r.relation_value < 0
                      [] action = "foreign_aid" ->
                            economy[actor].gdp > 2 * economy[target].gdp
                      [] OTHER -> TRUE
        IN  ~gate =>
              /\ ~last'.success
              /\ last'.message # ""
              /\ relations'[key] = r
              /\ \A c \in {actor, target} :
                    economy'[c] = economy[c] /\ population'[c] = population[c]
              /\ recent_actions' = recent_actions]_vars

\* sanctions asked against a trade partner on good terms, and rejected
C7_SanctionsRejected ==
    /\ last.op = "perform_diplomatic_action"
    /\ last.action = "sanctions"
    /\ ~last.success
    /\ last.message = "Cannot impose sanctions"
    /\ relations[get_relation_key(last.actor, last.target)].trade_deal
    /\ relations[get_relation_key(last.actor, last.target)].relation_value >= 0
    /\ ~relations[get_relation_key(last.actor, last.target)].sanctions

\* C8: WAR_DECLARATION on a pair with alliance = true is rejected, with the
\* state unchanged; on a pair with alliance = false it succeeds, and then
\* at_war = true, alliance = false, trade_deal = false, relation_value is the
\* value before minus 30 clamped at -100, and the military_spending of both
\* countries has risen by 0.05
C8_WarDeclaration ==
    [][(last'.op = "perform_diplomatic_action" /\ last'.action = "war_declaration") =>
        LET key == get_relation_key(last'.actor, last'.target)
            r == relations[key]
            r1 == relations'[key]
            \* n1 / d1 = n / d + 1 / 20
            Raised(e, e1) ==
                20 * (e1.military_spending * e.share_den
                        - e.military_spending * e1.share_den)
                    = e.share_den * e1.share_den
        IN  IF r.alliance
            THEN /\ ~last'.success
                 /\ relations' = relations
                 /\ economy' = economy
                 /\ population' = population
                 /\ government' = government
                 /\ country' = country
                 /\ recent_actions' = recent_actions
            ELSE /\ last'.success
                 /\ r1.at_war /\ ~r1.alliance /\ ~r1.trade_deal
                 /\ r1.relation_value =
                       (IF r.relation_value - 30 < -100 THEN -100
                        ELSE r.relation_value - 30)
                 /\ \A c \in {last'.actor, last'.target} :
                       Raised(economy[c], economy'[c])]_vars

\* a war declared on an ally, and rejected
C8_WarOnAllyRejected ==
    /\ last.op = "perform_diplomatic_action"
    /\ last.action = "war_declaration"
    /\ ~last.success
    /\ relations[get_relation_key(last.actor, last.target)].alliance
    /\ ~relations[get_relation_key(last.actor, last.target)].at_war

\* C10: TRADE_DEAL succeeds exactly when relation_value > 20 and at_war is
\* false; on success trade_deal becomes true, each of the two GDPs rises by 2%
\* of the smaller of the two GDPs before the action (to the unit of gdp, 2% is
\* a fiftieth rounded down), relation_value is unchanged and one entry is
\* appended to recent_actions
C10_TradeDeal ==
    [][(last'.op = "perform_diplomatic_action" /\ last'.action = "trade_deal") =>
        LET actor == last'.actor
            target == last'.target
            key == get_relation_key(actor, target)
            r == relations[key]
            r1 == relations'[key]
            smaller == IF economy[actor].gdp < economy[target].gdp
                       THEN economy[actor].gdp ELSE economy[target].gdp
        IN  /\ last'.success <=> (r.relation_value > 20 /\ ~r.at_war)
            /\ last'.success =>
                  /\ r1.trade_deal
                  /\ r1.relation_value = r.relation_value
                  /\ \A c \in {actor, target} :
                        economy'[c].gdp = economy[c].gdp + smaller \div 50
                  /\ Len(recent_actions') = Len(recent_actions) + 1
                  /\ SubSeq(recent_actions', 1, Len(recent_actions)) = recent_actions
                  /\ recent_actions'[Len(recent_actions')].action = "trade_deal"
                  /\ recent_actions'[Len(recent_actions')].actor = actor
                  /\ recent_actions'[Len(recent_actions')].target = target]_vars

\* the scenario of the specification: a trade deal signed at relation_value 25
C10_TradeDealSigned ==
    /\ last.op = "perform_diplomatic_action"
    /\ last.action = "trade_deal"
    /\ last.success
    /\ relations[get_relation_key(last.actor, last.target)].trade_deal
    /\ relations[get_relation_key(last.actor, last.target)].relation_value = 25
    /\ economy[last.actor].gdp > economy[last.target].gdp
    /\ recent_actions[Len(recent_actions)].action = "trade_deal"

\* C11: FOREIGN_AID succeeds exactly when the actor's GDP is above twice the
\* target's; on success 1% of the actor's GDP before the action (to the unit of
\* gdp, a hundredth rounded down) moves from the actor to the target, the sum
\* of the two GDPs is unchanged, and relation_value rises by 15, clamped at 100
C11_ForeignAid ==
    [][(last'.op = "perform_diplomatic_action" /\ last'.action = "foreign_aid") =>
        LET actor == last'.actor
            target == last'.target
            key == get_relation_key(actor, target)
            r == relations[key]
            r1 == relations'[key]
            aid == economy[actor].gdp \div 100
        IN  /\ last'.success <=> (economy[actor].gdp > 2 * economy[target].gdp)
            /\ last'.success =>
                  /\ economy'[actor].gdp = economy[actor].gdp - aid
                  /\ economy'[target].gdp = economy[target].gdp + aid
                  /\ economy'[actor].gdp + economy'[target].gdp
                        = economy[actor].gdp + economy[target].gdp
                  /\ r1.relation_value =
                        (IF r.relation_value + 15 > 100 THEN 100
                         ELSE r.relation_value + 15)]_vars

\* aid given by the richer player to a neighbour on poor terms
C11_AidGiven ==
    /\ last.op = "perform_diplomatic_action"
    /\ last.action = "foreign_aid"
    /\ last.success
    /\ economy[last.actor].gdp = 49500000
    /\ economy[last.target].gdp = 10500000
    /\ relations[get_relation_key(last.actor, last.target)].relation_value = -15

----------------------------------------------------------------------------
(* The event log *)

\* C12: after every Country.update the country's recent_events holds at most
\* 10 entries, and they are the last ones of the list the update started from
\* with the entry the update logged, if any, appended (an event of any kind but
\* a protest always logs one): when an 11th entry is appended it is the oldest
\* that is evicted
C12_RecentEventsBounded ==
    [][last'.op = "Country.update" =>
        LET old == country[last'.country].recent_events
            new == country'[last'.country].recent_events
            logs == last'.fire /\ last'.event \notin {"none", "protest"}
        IN  /\ Len(new) <= 10
            /\ \E full \in {old} \cup {Append(old, new[i]) : i \in DOMAIN new} :
                  /\ logs => Len(full) = Len(old) + 1
                  /\ Len(new) = (IF Len(full) > 10 THEN 10 ELSE Len(full))
                  /\ \A i \in DOMAIN new :
                        new[i] = full[Len(full) - Len(new) + i]]_vars

\* an update that logged an epidemic as the 11th entry and evicted the boom
\* that was the oldest
C12_OldestEvicted ==
    /\ last.op = "Country.update" /\ last.fire /\ last.event = "epidemic"
    /\ Len(country[Subject].recent_events) = 10
    /\ country[Subject].recent_events[1].description = "enters a recession."
    /\ country[Subject].recent_events[9].description = "enters a recession."
    /\ country[Subject].recent_events[10].description = "Disease outbreak"
----------------------------------------------------------------------------
(* The queries *)

\* C13: get_full_stats, get_diplomatic_summary and get_world_stats leave the
\* whole simulation state unchanged, and a query called again with no call
\* in between returns what it returned the first time
C13_QueriesReadOnly ==
    [][last'.op \in {"get_full_stats", "get_diplomatic_summary", "get_world_stats"} =>
        /\ UNCHANGED <<economy, population, government, country, relations,
                       recent_actions>>
        /\ (last.op = last'.op /\ last.country = last'.country) =>
               last'.result = last.result]_vars

\* get_full_stats called twice running on a country at war with the player,
\* whose military share the declaration has raised
C13_StatsReadTwice ==
    /\ last.op = "get_full_stats" /\ last.previous = "get_full_stats"
    /\ last.country = 2
    /\ relations[<<1, 2>>].at_war
    /\ last.result.gdp = economy[2].gdp
    /\ last.result.stability = government[2].stability
----------------------------------------------------------------------------
(* The log of diplomatic actions *)

\* C14: the recent-actions log of the DiplomacySystem is bounded: its length
\* never exceeds a fixed maximum, taken here as the 10 entries that bound the
\* other log of the simulation, recent_events
C14_RecentActionsBounded == Len(recent_actions) <= 10
----------------------------------------------------------------------------
(* Invalid input *)

\* C15: change_government_type with a type outside the four known ones leaves
\* type, years_in_power, next_election and stability unchanged; pass_law with
\* an unknown law name leaves the laws and stability unchanged;
\* perform_diplomatic_action between countries with no registered relation,
\* the actor itself as the target included, returns success = false and
\* changes nothing
C15_InvalidInputChangesNothing ==
    [][/\ (last'.op = "change_government_type"
            /\ last'.new_type \notin {"democracy", "republic", "monarchy",
                                      "dictatorship"}) =>
              LET g == government[last'.country]
                  g1 == government'[last'.country]
              IN  /\ g1.type = g.type
                  /\ g1.years_in_power = g.years_in_power
                  /\ g1.next_election = g.next_election
                  /\ g1.stability = g.stability
       /\ (last'.op = "pass_law" /\ last'.law_name \notin DOMAIN government[last'.country].laws) =>
              /\ government'[last'.country].laws = government[last'.country].laws
              /\ government'[last'.country].stability = government[last'.country].stability
       /\ (last'.op = "perform_diplomatic_action"
            /\ (IF last'.actor <= last'.target THEN <<last'.actor, last'.target>>
                ELSE <<last'.target, last'.actor>>) \notin DOMAIN relations) =>
              /\ ~last'.success
              /\ UNCHANGED <<economy, population, government, country, relations,
                             recent_actions>>]_vars

\* an unknown government type passed to a monarchy that a change of type has
\* just installed, at the cost of 30 points of stability
C15_UnknownTypeIgnored ==
    /\ last.op = "change_government_type" /\ last.new_type = "theocracy"
    /\ government[last.country].type = "monarchy"
    /\ government[last.country].next_election = 0
    /\ government[last.country].stability = 4000
    /\ steps = 2
----------------------------------------------------------------------------
(* Relation values *)

\* C16: the relation_value of every DiplomaticRelation is within [-100, 100]
\* in every reachable state, from initialisation through any sequence of
\* diplomatic actions and AI diplomacy
C16_RelationValueInRange ==
    \A k \in DOMAIN relations :
        relations[k].relation_value >= -100 /\ relations[k].relation_value <= 100

\* a third declaration of war on the same country, which would take the value
\* from -90 to -120 and leaves it at -100
C16_ClampedAtMinus100 ==
    /\ last.op = "perform_diplomatic_action" /\ last.action = "war_declaration"
    /\ last.success
    /\ Len(recent_actions) = 3
    /\ \A i \in 1..3 : recent_actions[i].action = "war_declaration"
    /\ relations[get_relation_key(last.actor, last.target)].relation_value = -100

----------------------------------------------------------------------------
(* Peace treaties *)

\* C17: PEACE_TREATY succeeds exactly when the relation is at war; on success
\* at_war becomes false, relation_value rises by 20 (clamped at 100), the
\* military_spending of each side becomes max(0.05, its previous value - 0.05),
\* and alliance, trade_deal and sanctions are unchanged
C17_PeaceTreaty ==
    [][(last'.op = "perform_diplomatic_action" /\ last'.action = "peace_treaty") =>
        LET key == IF last'.actor <= last'.target THEN <<last'.actor, last'.target>>
                   ELSE <<last'.target, last'.actor>>
            r == relations[key]
            r1 == relations'[key]
        IN  /\ last'.success <=> r.at_war
            /\ last'.success =>
                  /\ ~r1.at_war
                  /\ r1.relation_value = (IF r.relation_value + 20 > 100 THEN 100
                                          ELSE r.relation_value + 20)
                  /\ \A c \in {last'.actor, last'.target} :
                        LET e == economy[c]
                            e1 == economy'[c]
                            lowered == 20 * e.military_spending - e.share_den
                        IN  20 * e1.military_spending * e.share_den =
                              e1.share_den * (IF lowered < e.share_den
                                              THEN e.share_den ELSE lowered)
                  /\ r1.alliance = r.alliance
                  /\ r1.trade_deal = r.trade_deal
                  /\ r1.sanctions = r.sanctions]_vars

\* a peace that leaves the player, who had cut its military share to nothing
\* before the war, at the floor of 0.05, and its neighbour back at 0.10, with
\* the sanctions of the war still in place
C17_PeaceAtTheFloor ==
    /\ last.op = "perform_diplomatic_action" /\ last.action = "peace_treaty"
    /\ last.success
    /\ 20 * economy[last.actor].military_spending = economy[last.actor].share_den
    /\ 10 * economy[last.target].military_spending = economy[last.target].share_den
    /\ relations[get_relation_key(last.actor, last.target)].sanctions
    /\ ~relations[get_relation_key(last.actor, last.target)].at_war
----------------------------------------------------------------------------
(* The AI and the player *)

\* C18: the AI never acts for the player: ai_make_decisions called on the
\* player's country changes nothing; the Country.update that WorldMap.update
\* runs on the player leaves the tax rate, the spending shares and the
\* government type, which only ai_make_decisions writes there, as they were;
\* and no action that update_ai_diplomacy performs has the player as its actor
C18_AiLeavesPlayerAlone ==
    [][/\ (last'.op = "ai_make_decisions" /\ country[last'.country].is_player) =>
              UNCHANGED <<economy, population, government, country, relations,
                          recent_actions>>
       /\ (last'.op = "Country.update" /\ country[last'.country].is_player) =>
              LET e == economy[last'.country]
                  e1 == economy'[last'.country]
              IN  /\ e1.tax_rate = e.tax_rate
                  /\ e1.share_den = e.share_den
                  /\ e1.healthcare_spending = e.healthcare_spending
                  /\ e1.education_spending = e.education_spending
                  /\ e1.military_spending = e.military_spending
                  /\ e1.infrastructure_spending = e.infrastructure_spending
                  /\ e1.welfare_spending = e.welfare_spending
                  /\ government'[last'.country].type = government[last'.country].type
       /\ last'.op = "update_ai_diplomacy" =>
              /\ Len(recent_actions') >= Len(recent_actions)
              /\ \A i \in 1..Len(recent_actions') :
                    IF i <= Len(recent_actions)
                    THEN recent_actions'[i] = recent_actions[i]
                    ELSE /\ ~country[recent_actions'[i].actor].is_player
                         /\ ~recent_actions'[i].player_initiated]_vars

\* an update_ai_diplomacy in which the neighbour improved its relations with
\* the player: the player is the target of the one action performed
C18_PlayerIsTarget ==
    /\ last.op = "update_ai_diplomacy"
    /\ Len(recent_actions) = 1
    /\ ~country[recent_actions[1].actor].is_player
    /\ country[recent_actions[1].target].is_player
    /\ recent_actions[1].action = "improve_relations"

----------------------------------------------------------------------------
(* Elections *)

\* C19: for a government whose type holds elections, next_election counts
\* down as update_government is called, so that under repeated ticks it
\* reaches zero and hold_election runs
C19_ElectionEventuallyHeld ==
    (government[Player].type \in {"democracy", "republic"}) ~>
        (\/ government[Player].next_election <= 0
         \/ last.op = "update_government" /\ last.election)

----------------------------------------------------------------------------
(* The population of the economy *)

\* C20: at the end of every Country.update the population the Economy holds
\* equals Population.total, whichever random event fired during the update
C20_PopulationInSync ==
    last.op = "Country.update" =>
        economy[last.country].population = population[last.country].total

----------------------------------------------------------------------------
(* The order of WorldMap.update *)

\* C21: within one WorldMap.update no DiplomaticRelation is modified until
\* Country.update, with the AI policy, has completed for every country of the
\* roster; update_ai_diplomacy runs next, after the last country, and
\* resolve_wars runs after it
C21_DiplomacyAfterCountries ==
    [][/\ (last'.op = "Country.update" \/ phase.at = "countries"
              \/ phase'.at = "countries") =>
              relations' = relations /\ recent_actions' = recent_actions
       /\ last'.op = "update_ai_diplomacy" =>
              /\ last.op = "Country.update"
              /\ \A c \in DOMAIN country : c <= last.country
       /\ last'.op = "resolve_wars" => last.op = "update_ai_diplomacy"]_vars

\* the end of a tick whose resolve_wars wore down the two sides of the war the
\* player had declared
C21_WarResolvedAtEndOfTick ==
    /\ last.op = "resolve_wars" /\ phase.at = "idle" /\ ticks = 1
    /\ Len(recent_actions) >= 1 /\ recent_actions[1].action = "war_declaration"
    /\ \E k \in DOMAIN relations : relations[k].at_war
    /\ population[2].happiness < 5000

(* The parties *)
\* C22: in every state the ruling party is one of the four parties and no party
\* is more popular than it, between elections too
C22_RulingPartyMostPopular ==
    \A c \in DOMAIN government :
        /\ government[c].ruling_party \in Parties
        /\ \A i \in Parties :
              government[c].popularity[i]
                 <= government[c].popularity[government[c].ruling_party]

\* C23: the four popularities sum to 1 in every state between operations; the
\* divisions of a normalisation, rounded down to 1/10000, lose less than one
\* unit for each party
C23_PopularitiesSumToOne ==
    \A c \in DOMAIN government :
        /\ PopularityTotal(government[c].popularity) <= 10000
        /\ PopularityTotal(government[c].popularity) > 10000 - Cardinality(Parties)

(* The end of a war *)
\* C25: when resolve_wars ends a war, the winner is the side whose
\* military_strength * stability / 100 before that call was the higher, and one
\* of the two sides when they were equal; the winner's GDP, after the call's
\* attrition of 0.1%, is multiplied by 1.05 and the loser's by 0.95, the
\* military_spending of both becomes max(0.05, previous - 0.03), at_war is
\* false and relation_value is unchanged
C25_WarEnds ==
    [][\A k \in DOMAIN relations :
          (last'.op = "resolve_wars" /\ relations[k].at_war /\ ~relations'[k].at_war) =>
             LET c1 == relations[k].country1
                 c2 == relations[k].country2
                 s1 == country[c1].military_strength * government[c1].stability
                 s2 == country[c2].military_strength * government[c2].stability
                 Spending(c) ==
                     economy'[c].military_spending * 100 * economy[c].share_den
                        = Max(5 * economy[c].share_den,
                              100 * economy[c].military_spending
                                 - 3 * economy[c].share_den) * economy'[c].share_den
             IN  /\ relations'[k].relation_value = relations[k].relation_value
                 /\ \E winner \in {c1, c2} :
                       \E loser \in {c1, c2} \ {winner} :
                          /\ s1 > s2 => winner = c1
                          /\ s2 > s1 => winner = c2
                          /\ economy'[winner].gdp
                                = MulDiv(MulDiv(economy[winner].gdp, 999, 1000), 105, 100)
                          /\ economy'[loser].gdp
                                = MulDiv(MulDiv(economy[loser].gdp, 999, 1000), 95, 100)
                          /\ Spending(winner) /\ Spending(loser)]_vars

\* a war between two sides of equal strength has ended: the second country of
\* the relation won it, and the military spending of both, raised to 0.15 by
\* the declaration, is 0.12
C25_TieWonBySecond ==
    /\ last.op = "resolve_wars"
    /\ ~relations[TheRelation].at_war
    /\ country[1].military_strength = country[2].military_strength
    /\ government[1].stability = government[2].stability
    /\ economy[1].military_spending * 100 = 12 * economy[1].share_den
    /\ economy[2].military_spending * 100 = 12 * economy[2].share_den
    /\ economy[1].gdp < Setup[1].initial_gdp
    /\ economy[2].gdp > Setup[2].initial_gdp

(* The cooldown of a kind of event *)
\* C24: after an event of a kind has fired in a Country.update of a country,
\* the kind does not fire again for that country during the next 100 updates:
\* at least 100 updates without it lie between two firings; a stored cooldown
\* counter is between 1 and 100
C24_CooldownOfHundredUpdates ==
    [][/\ (last'.op = "Country.update" /\ last'.fire /\ steps > 0 /\ last.fired)
             => last.since >= 100
       /\ \A c \in DOMAIN country : \A k \in EventKinds :
             country'[c].event_cooldown[k] \in 0..100]_vars

(* The event picked by trigger_random_event *)
\* C26: every time trigger_random_event picks a kind, a description is appended
\* to recent_events (of which the update keeps the last ten) and the kind's
\* cooldown is set: no picked kind sets a cooldown without logging a description
C26_PickedEventIsLogged ==
    [][(last'.op = "Country.update" /\ last'.fire /\ last'.event # "none") =>
        LET old == country[last'.country].recent_events
            new == country'[last'.country].recent_events
        IN  /\ country'[last'.country].event_cooldown[last'.event] > 0
            /\ Len(new) >= 1
            /\ Len(new) = (IF Len(old) >= 10 THEN 10 ELSE Len(old) + 1)
            /\ \A i \in 1..(Len(new) - 1) :
                  new[i] = Append(old, new[Len(new)])[Len(old) + 1 - Len(new) + i]]_vars

(* The flags of a relation *)
\* C27: no relation is at war and allied at once, and none is at war with a
\* trade deal in force, whatever the order of the player's actions, the AI's
\* diplomacy and the resolution of wars
C27_NoWarWithAllyOrPartner ==
    \A k \in DOMAIN relations :
        /\ ~(relations[k].at_war /\ relations[k].alliance)
        /\ ~(relations[k].at_war /\ relations[k].trade_deal)

\* the player signed a trade deal and then declared war on the partner: the
\* war is on and the deal is gone
C27_WarOnTradePartner ==
    /\ Len(recent_actions) = 2
    /\ recent_actions[1].action = "trade_deal"
    /\ recent_actions[2].action = "war_declaration"
    /\ recent_actions[1].target = recent_actions[2].target
    /\ \E k \in DOMAIN relations : relations[k].at_war /\ ~relations[k].trade_deal

\* C28: an alliance in force implies relation_value >= -80 and a trade deal in
\* force implies relation_value >= -90
C28_FlagsAboveThresholds ==
    \A k \in DOMAIN relations :
        /\ relations[k].alliance => relations[k].relation_value >= -80
        /\ relations[k].trade_deal => relations[k].relation_value >= -90

\* an alliance the player formed at a value above 50, whose relation a later
\* action of the player changed through update_relation
C28_AllianceThenImproved ==
    /\ Len(recent_actions) = 4
    /\ recent_actions[3].action = "alliance"
    /\ recent_actions[4].action = "improve_relations"
    /\ recent_actions[3].target = recent_actions[4].target
    /\ \E k \in DOMAIN relations :
          relations[k].alliance /\ relations[k].relation_value > 60

(* Sanctions *)
\* C29: once the sanctions of a relation are set they stay set for the rest of
\* the run: no diplomatic action, no threshold of update_relation and no
\* resolution of a war clears them
C29_SanctionsNeverLifted ==
    [][\A k \in DOMAIN relations :
          relations[k].sanctions => relations'[k].sanctions]_vars

\* a relation under sanctions with a trade deal in force: the player imposed
\* the sanctions, mended the relation and signed the deal
C29_SanctionsWithTradeDeal ==
    /\ last.op = "perform_diplomatic_action" /\ last.action = "trade_deal"
    /\ last.success
    /\ \E k \in DOMAIN relations :
          /\ relations[k].sanctions /\ relations[k].trade_deal
          /\ relations[k].relation_value > 20

(* The range of a popularity *)
\* C30: the popularity of every party is within [0, 1] in every state, also
\* that of a ruling party lowered on consecutive ticks with no election between
C30_PopularityInRange ==
    \A c \in DOMAIN government : \A i \in Parties :
        /\ government[c].popularity[i] >= 0
        /\ government[c].popularity[i] <= 10000

============================================================================
